---------------------------- MODULE Spec2Model ----------------------------
(***************************************************************************)
(* ValeoStats: the chat-mapping store of the Telegram bot (src/bot.py,     *)
(* src/db_storage.py): the two storage backends (flat JSON file and        *)
(* PostgreSQL), and the /link, /unlink and /config handlers that run a     *)
(* load -> mutate -> save cycle over them.                                 *)
(***************************************************************************)
EXTENDS Integers, Sequences, FiniteSets, TLC

VARIABLES
    backend,      \* "file" | "db": the storage selected at start (bot.py 193-268)
    file,         \* chat_mapping.json: [kind |-> "missing" | "garbage" | "json", data]
    db,           \* PostgreSQL: [chats |-> chat_mappings rows, models |-> chat_models rows]
    mappings,     \* the in-memory Dict[str, ChatMapping] of the last storage operation
    op,           \* the last operation performed
    reply,        \* what the last operation answered to its caller
    save_status,  \* "none" | "ok" | "failed_logged" | "failed_raised"
    io_fault,     \* the storage steps of the last operation that failed
    before,       \* the durable mapping set before the last load(), save() or round trip
    job_pass,     \* the scheduled-job pass in progress or last finished
    bot_data,     \* context.bot_data: alert_key -> timestamp of the last whale alert
    now,          \* datetime.now().timestamp(), in seconds
    shown         \* what the last handler or computation produced for display

\* the variables of the scheduled jobs
jobvars == <<job_pass, bot_data, now>>

vars == <<backend, file, db, mappings, op, reply, save_status, io_fault, before,
          job_pass, bot_data, now, shown>>

-----------------------------------------------------------------------------
(* Bounds of the model *)

\* the longest models list a chat is given by /link
MaxModels == 2

\* the chats that issue commands
Chats == {"c1", "c2"}

\* account ids given to /link
Accounts == {"a1", "a2"}

\* Python's None (JSON null, SQL NULL) for an absent nickname
None == "None"

\* nicknames given to /link
Nicknames == {None}

-----------------------------------------------------------------------------
(* Program constants *)

\* ChatMapping.whale_alert_threshold default
DefaultThreshold == 4

\* cmd_config: 0 <= threshold <= 5
MinThreshold == 0
MaxThreshold == 5

supported_platforms == {"onlyfans", "fansly"}

-----------------------------------------------------------------------------
(* Data model *)

\* dict.get(key, default)
Get(d, key, default) == IF key \in DOMAIN d THEN d[key] ELSE default

\* the empty Dict[str, ChatMapping]
EmptyMappings == [c \in {} |-> {}]

\* f without key c (del mappings[chat_id])
Without(f, c) == [k \in DOMAIN f \ {c} |-> f[k]]

\* f with key c bound to v (mappings[chat_id] = v)
With(f, c, v) == [k \in DOMAIN f \cup {c} |-> IF k = c THEN v ELSE f[k]]

ModelConfig(platform, platform_account_id, nickname) ==
    [platform |-> platform,
     platform_account_id |-> platform_account_id,
     nickname |-> nickname]

ChatMapping(models, chat_type, daily, weekly, whale, chatter, threshold) ==
    [models |-> models,
     chat_type |-> chat_type,
     enable_daily_report |-> daily,
     enable_weekly_report |-> weekly,
     enable_whale_alerts |-> whale,
     enable_chatter_report |-> chatter,
     whale_alert_threshold |-> threshold]

-----------------------------------------------------------------------------
(* Flat-file backend: StorageManager *)

MissingFile == [kind |-> "missing"]
GarbageFile == [kind |-> "garbage"]
JsonFile(data) == [kind |-> "json", data |-> data]

\* the old single-model record shape
IsOldFormat(mapping_data) ==
    "platform" \in DOMAIN mapping_data /\ "platform_account_id" \in DOMAIN mapping_data

\* model_data["platform"] / ["platform_account_id"] raise KeyError when absent
RecordRaises(mapping_data) ==
    /\ ~IsOldFormat(mapping_data)
    /\ \E i \in DOMAIN Get(mapping_data, "models", <<>>) :
          ~({"platform", "platform_account_id"} \subseteq DOMAIN mapping_data.models[i])

\* mutant: the old single-model shape is no longer converted
LoadModels_NoOldFormat(mapping_data) ==
    LET ms == Get(mapping_data, "models", <<>>)
    IN  [i \in 1..Len(ms) |->
           ModelConfig(ms[i].platform, ms[i].platform_account_id,
                       Get(ms[i], "nickname", None))]

LoadModels(mapping_data) ==
    IF IsOldFormat(mapping_data)
    THEN << ModelConfig(mapping_data.platform, mapping_data.platform_account_id, None) >>
    ELSE LET ms == Get(mapping_data, "models", <<>>)
         IN  [i \in 1..Len(ms) |->
                ModelConfig(ms[i].platform, ms[i].platform_account_id,
                            Get(ms[i], "nickname", None))]

\* "Set defaults for missing fields": taken when chat_type is absent
SetDefaults(mapping_data) ==
    IF "chat_type" \notin DOMAIN mapping_data
    THEN [chat_type |-> "agency",
          enable_daily_report |-> TRUE,
          enable_weekly_report |-> TRUE,
          enable_whale_alerts |-> TRUE,
          enable_chatter_report |-> FALSE,
          whale_alert_threshold |-> DefaultThreshold] @@ mapping_data
    ELSE mapping_data

\* "Add chatter_report field if missing"
AddChatterReport(mapping_data) ==
    IF "enable_chatter_report" \notin DOMAIN mapping_data
    THEN [enable_chatter_report |-> FALSE] @@ mapping_data
    ELSE mapping_data

LoadRecord(mapping_data) ==
    LET d == AddChatterReport(SetDefaults(mapping_data))
    IN  ChatMapping(LoadModels(mapping_data),
                    Get(d, "chat_type", "agency"),
                    Get(d, "enable_daily_report", TRUE),
                    Get(d, "enable_weekly_report", TRUE),
                    Get(d, "enable_whale_alerts", TRUE),
                    Get(d, "enable_chatter_report", FALSE),
                    Get(d, "whale_alert_threshold", DefaultThreshold))

\* StorageManager.load; readable = FALSE when open() or read() fails
StorageManagerLoad(f, readable) ==
    IF f.kind = "missing" THEN EmptyMappings
    ELSE IF ~readable \/ f.kind = "garbage" THEN EmptyMappings
    ELSE IF \E c \in DOMAIN f.data : RecordRaises(f.data[c]) THEN EmptyMappings
    ELSE [c \in DOMAIN f.data |-> LoadRecord(f.data[c])]

\* StorageManager.load lets no exception out: "except Exception: return {}"
StorageManagerLoadRaises(f, readable) == FALSE

\* mutant: the nickname is not written
SaveModel_NoNickname(model) ==
    [platform |-> model.platform,
     platform_account_id |-> model.platform_account_id]

SaveModel(model) ==
    [platform |-> model.platform,
     platform_account_id |-> model.platform_account_id,
     nickname |-> model.nickname]

SaveRecord(mapping) ==
    [models |-> [i \in 1..Len(mapping.models) |-> SaveModel(mapping.models[i])],
     chat_type |-> mapping.chat_type,
     enable_daily_report |-> mapping.enable_daily_report,
     enable_weekly_report |-> mapping.enable_weekly_report,
     enable_whale_alerts |-> mapping.enable_whale_alerts,
     enable_chatter_report |-> mapping.enable_chatter_report,
     whale_alert_threshold |-> mapping.whale_alert_threshold]

\* StorageManager.save: the file the write leaves behind.
\* written = "all": open() and json.dump succeed;
\* written = "none": open(filepath, "w") fails, the file is untouched;
\* written = "part": open() has truncated the file and the write fails.
StorageManagerSave(f, ms, written) ==
    CASE written = "all"  -> JsonFile([c \in DOMAIN ms |-> SaveRecord(ms[c])])
      [] written = "none" -> f
      [] written = "part" -> GarbageFile

-----------------------------------------------------------------------------
(* Relational backend: DatabaseStorage and DatabaseStorageWrapper *)

\* the tables after _init_schema on a new database
EmptyDb == [chats |-> [c \in {} |-> {}], models |-> [c \in {} |-> <<>>]]

\* UNIQUE(chat_id, platform, platform_account_id) on chat_models
UniqueViolation(models) ==
    \E i, j \in DOMAIN models :
        /\ i # j
        /\ models[i].platform = models[j].platform
        /\ models[i].platform_account_id = models[j].platform_account_id

\* DatabaseStorage.load_mapping: the dict of one chat (rows ORDER BY id)
load_mapping(d, chat_id) ==
    [chat_type |-> d.chats[chat_id].chat_type,
     enable_daily_report |-> d.chats[chat_id].enable_daily_report,
     enable_weekly_report |-> d.chats[chat_id].enable_weekly_report,
     enable_monthly_report |-> Get(d.chats[chat_id], "enable_monthly_report", TRUE),
     enable_whale_alerts |-> d.chats[chat_id].enable_whale_alerts,
     enable_chatter_report |-> d.chats[chat_id].enable_chatter_report,
     whale_alert_threshold |-> d.chats[chat_id].whale_alert_threshold,
     models |-> [i \in 1..Len(d.models[chat_id]) |->
                   [platform |-> d.models[chat_id][i].platform,
                    platform_account_id |-> d.models[chat_id][i].platform_account_id,
                    nickname |-> d.models[chat_id][i].nickname]]]

\* DatabaseStorage.load_all_mappings. listed = FALSE: the connection or the
\* SELECT of the chat ids fails (except: return {}); unread: the chats whose
\* load_mapping fails and returns None, which "if mapping:" skips.
load_all_mappings(d, listed, unread) ==
    IF ~listed THEN [c \in {} |-> {}]
    ELSE [c \in DOMAIN d.chats \ unread |-> load_mapping(d, c)]

\* load_all_mappings lets no exception out: load_mapping returns None on
\* its errors, and "except Exception: return {}" takes the others
load_all_mappings_raises(listed, unread) == FALSE

\* DatabaseStorageWrapper.load: the dicts converted to ChatMapping objects
DatabaseStorageWrapperLoad(mappings_dict) ==
    [c \in DOMAIN mappings_dict |->
        ChatMapping(
            [i \in 1..Len(Get(mappings_dict[c], "models", <<>>)) |->
                ModelConfig(mappings_dict[c].models[i].platform,
                            mappings_dict[c].models[i].platform_account_id,
                            Get(mappings_dict[c].models[i], "nickname", None))],
            Get(mappings_dict[c], "chat_type", "agency"),
            Get(mappings_dict[c], "enable_daily_report", TRUE),
            Get(mappings_dict[c], "enable_weekly_report", TRUE),
            Get(mappings_dict[c], "enable_whale_alerts", TRUE),
            Get(mappings_dict[c], "enable_chatter_report", FALSE),
            Get(mappings_dict[c], "whale_alert_threshold", DefaultThreshold))]

\* DatabaseStorage.delete_mapping, committed: ON DELETE CASCADE removes the models
delete_mapping(d, chat_id) ==
    [chats |-> Without(d.chats, chat_id), models |-> Without(d.models, chat_id)]

\* the dict DatabaseStorageWrapper.save builds for one chat (no enable_monthly_report)
mapping_dict(mapping) ==
    [chat_type |-> mapping.chat_type,
     enable_daily_report |-> mapping.enable_daily_report,
     enable_weekly_report |-> mapping.enable_weekly_report,
     enable_whale_alerts |-> mapping.enable_whale_alerts,
     enable_chatter_report |-> mapping.enable_chatter_report,
     whale_alert_threshold |-> mapping.whale_alert_threshold,
     models |-> [i \in 1..Len(mapping.models) |->
                   [platform |-> mapping.models[i].platform,
                    platform_account_id |-> mapping.models[i].platform_account_id,
                    nickname |-> mapping.models[i].nickname]]]

\* DatabaseStorage.save_mapping, committed: upsert of the chat's row, delete of
\* its model rows, insert of the given models in order
save_mapping(d, chat_id, mapping) ==
    [chats |-> With(d.chats, chat_id,
                  [chat_type |-> Get(mapping, "chat_type", "agency"),
                   enable_daily_report |-> Get(mapping, "enable_daily_report", TRUE),
                   enable_weekly_report |-> Get(mapping, "enable_weekly_report", TRUE),
                   enable_monthly_report |-> Get(mapping, "enable_monthly_report", TRUE),
                   enable_whale_alerts |-> Get(mapping, "enable_whale_alerts", TRUE),
                   enable_chatter_report |-> Get(mapping, "enable_chatter_report", FALSE),
                   whale_alert_threshold |->
                       Get(mapping, "whale_alert_threshold", DefaultThreshold)]),
     models |-> With(d.models, chat_id,
                  [i \in 1..Len(Get(mapping, "models", <<>>)) |->
                     [platform |-> mapping.models[i].platform,
                      platform_account_id |-> mapping.models[i].platform_account_id,
                      nickname |-> mapping.models[i].nickname]])]

\* save_mapping raises (and its transaction rolls back) on a database error or
\* when the inserts violate the UNIQUE constraint
save_mapping_raises(mapping, db_error) ==
    db_error \/ UniqueViolation(Get(mapping, "models", <<>>))

\* mutant: the chats that left the mapping set are not deleted
DeleteEach_Skip(d, chat_ids) == d

RECURSIVE DeleteEach(_, _)
\* the loop "for chat_id in deleted_chat_ids: delete_mapping(chat_id)"
DeleteEach(d, chat_ids) ==
    IF chat_ids = {} THEN d
    ELSE LET c == CHOOSE x \in chat_ids : TRUE
         IN  DeleteEach(delete_mapping(d, c), chat_ids \ {c})

RECURSIVE SaveEach(_, _, _)
\* the loop "for chat_id, mapping in mappings.items(): save_mapping(...)"
SaveEach(d, ms, chat_ids) ==
    IF chat_ids = {} THEN d
    ELSE LET c == CHOOSE x \in chat_ids : TRUE
         IN  SaveEach(save_mapping(d, c, mapping_dict(ms[c])), ms, chat_ids \ {c})

\* DatabaseStorageWrapper.save. existing: what its own load_all_mappings
\* returned; deleted: the chats whose delete_mapping committed before the run
\* ended; saved: the chats whose save_mapping committed; failed_at: the chats
\* (at most one) whose delete_mapping or save_mapping raised, ending the run.
\* Returns the tables and whether the exception left save().
DatabaseStorageWrapperSave(d, ms, existing, deleted, saved) ==
    LET deleted_chat_ids == DOMAIN existing \ DOMAIN ms
        complete == deleted = deleted_chat_ids /\ saved = DOMAIN ms
    IN  [db |-> SaveEach(DeleteEach(d, deleted), ms, saved),
         raised |-> ~complete]

-----------------------------------------------------------------------------
(* The storage object the handlers use: storage.load() and storage.save()  *)
(* of the selected backend, with the outcomes a failing step can produce.  *)
(* faults = FALSE: every file and database operation succeeds.             *)

\* mutant: a command reads the mapping set a job pass has cached
LoadOutcomes_Snapshot(faults) ==
    { [result |-> job_pass.snapshot, raised |-> FALSE, fault |-> {}] }

\* storage.load(): the possible results, each with the steps that failed
\* ("read": open() or read() of the file; "parse": json.load or a record's
\* KeyError; "list": the connection or the SELECT of the chat ids;
\* "read_chat": a chat's load_mapping)
LoadOutcomes(faults) ==
    IF backend = "file"
    THEN { [result |-> StorageManagerLoad(file, readable),
            raised |-> StorageManagerLoadRaises(file, readable),
            fault |-> IF file.kind = "missing" THEN {}
                      ELSE IF ~readable THEN {"read"}
                      ELSE IF file.kind = "garbage" THEN {"parse"}
                      ELSE IF \E c \in DOMAIN file.data : RecordRaises(file.data[c])
                      THEN {"parse"} ELSE {}]
           : readable \in IF faults /\ file.kind # "missing" THEN {TRUE, FALSE} ELSE {TRUE} }
    ELSE { [result |-> DatabaseStorageWrapperLoad(load_all_mappings(db, TRUE, unread)),
            raised |-> load_all_mappings_raises(TRUE, unread),
            fault |-> IF unread # {} THEN {"read_chat"} ELSE {}]
           : unread \in IF faults THEN SUBSET DOMAIN db.chats ELSE {{}} }
         \cup
         { [result |-> DatabaseStorageWrapperLoad(load_all_mappings(db, FALSE, {})),
            raised |-> load_all_mappings_raises(FALSE, {}),
            fault |-> {"list"}]
           : listed \in IF faults THEN {FALSE} ELSE {} }

\* StorageManager.save: no exception leaves it (except: logger.error)
FileSaveOutcomes(ms, faults) ==
    { [file |-> StorageManagerSave(file, ms, written),
       db |-> db,
       status |-> IF written = "all" THEN "ok" ELSE "failed_logged",
       fault |-> CASE written = "all" -> {}
                   [] written = "none" -> {"open"}
                   [] written = "part" -> {"write"}]
      : written \in IF faults THEN {"all", "none", "part"} ELSE {"all"} }

\* the sets of chats whose save_mapping can have committed when the loop over
\* mappings.items() ends. The dict keeps insertion order: the chats as loaded
\* (no ORDER BY: any order), then the chat the handler appended, if any.
SavedChoices(ms, appended, faults) ==
    { saved \in SUBSET DOMAIN ms :
        /\ \A c \in saved : ~save_mapping_raises(mapping_dict(ms[c]), FALSE)
        /\ \/ saved = DOMAIN ms
           \/ \E x \in DOMAIN ms \ saved :
                /\ save_mapping_raises(mapping_dict(ms[x]), faults)
                /\ saved \cap appended = {}
                /\ x \in appended => saved = DOMAIN ms \ appended }

\* DatabaseStorageWrapper.save: an exception of delete_mapping or save_mapping
\* leaves it (neither is caught)
DbSaveOutcomes(ms, appended, faults) ==
    UNION { UNION {
        { [file |-> file,
           db |-> DatabaseStorageWrapperSave(db, ms, ex.existing, deleted, saved).db,
           status |-> IF DatabaseStorageWrapperSave(db, ms, ex.existing, deleted, saved).raised
                      THEN "failed_raised" ELSE "ok",
           fault |-> ex.fault \cup
                     (IF deleted # DOMAIN ex.existing \ DOMAIN ms THEN {"delete"}
                      ELSE IF DatabaseStorageWrapperSave(db, ms, ex.existing, deleted, saved).raised
                      THEN {"upsert"} ELSE {})]
          : saved \in IF deleted = DOMAIN ex.existing \ DOMAIN ms
                      THEN SavedChoices(ms, appended, faults)
                      ELSE {{}} }
        : deleted \in IF faults
                      THEN SUBSET (DOMAIN ex.existing \ DOMAIN ms)
                      ELSE {DOMAIN ex.existing \ DOMAIN ms} }
      : ex \in { [existing |-> load_all_mappings(db, TRUE, unread),
                  fault |-> IF unread # {} THEN {"read_chat"} ELSE {}]
                 : unread \in IF faults THEN SUBSET DOMAIN db.chats ELSE {{}} }
               \cup
               { [existing |-> load_all_mappings(db, FALSE, {}), fault |-> {"list"}]
                 : listed \in IF faults THEN {FALSE} ELSE {} } }

\* storage.save(mappings): the possible outcomes
SaveOutcomes(ms, appended, faults) ==
    IF backend = "file"
    THEN FileSaveOutcomes(ms, faults)
    ELSE DbSaveOutcomes(ms, appended, faults)

\* the durable mapping set: what a load whose every step succeeds returns
Durable ==
    IF backend = "file"
    THEN StorageManagerLoad(file, TRUE)
    ELSE DatabaseStorageWrapperLoad(load_all_mappings(db, TRUE, {}))

-----------------------------------------------------------------------------
(* Initial states *)

\* no scheduled job has run yet
\* nothing has been produced for display
NoView == [kind |-> "none"]

NoPass ==
    [job |-> "none", snapshot |-> EmptyMappings, todo |-> <<>>, done |-> <<>>,
     sent |-> <<>>, failed |-> {}]

\* context.bot_data of a new Application (no persistence is configured)
EmptyBotData == [k \in {} |-> 0]

\* the clock when the bot starts, in seconds: any time later than the alert
\* window after the epoch
StartTime == 3600

\* the bot started on an empty store: no chat_mapping.json, empty tables
Init ==
    /\ backend \in {"file", "db"}
    /\ file = MissingFile
    /\ db = EmptyDb
    /\ mappings = EmptyMappings
    /\ op = "init"
    /\ reply = "none"
    /\ save_status = "none"
    /\ io_fault = {}
    /\ before = EmptyMappings
    /\ job_pass = NoPass
    /\ bot_data = EmptyBotData
    /\ now = StartTime
    /\ shown = NoView

-----------------------------------------------------------------------------
(* Command handlers. No await separates a handler's load from its save, so *)
(* each handler is one step.                                               *)

\* the handler returns after a reply, without saving
Answer(operation, ld, text) ==
    /\ op' = operation
    /\ reply' = text
    /\ mappings' = ld.result
    /\ save_status' = "none"
    /\ io_fault' = ld.fault
    /\ shown' = NoView
    /\ UNCHANGED <<backend, file, db, before>>
    /\ UNCHANGED jobvars

\* the handler saves ms and replies; an exception of save() ends it unanswered
SaveAndAnswer(operation, ld, ms, appended, faults, text) ==
    \E out \in SaveOutcomes(ms, appended, faults) :
        /\ op' = operation
        /\ reply' = IF out.status = "failed_raised" THEN "raised" ELSE text
        /\ mappings' = ms
        /\ save_status' = out.status
        /\ io_fault' = (ld.fault \cup out.fault)
        /\ file' = out.file
        /\ db' = out.db
        /\ shown' = NoView
        /\ UNCHANGED <<backend, before>>
        /\ UNCHANGED jobvars

\* mutant: every first /link gives the agency toggles
FirstLinkMapping_AgencyOnly(platform, account_id, chat_type, nickname) ==
    ChatMapping(<< ModelConfig(platform, account_id, nickname) >>,
                IF chat_type = "chatter" THEN "chatter" ELSE "agency",
                TRUE, TRUE, FALSE, FALSE, DefaultThreshold)

\* the toggles a first /link gives the chat
FirstLinkMapping(platform, account_id, chat_type, nickname) ==
    IF chat_type = "chatter"
    THEN ChatMapping(<< ModelConfig(platform, account_id, nickname) >>,
                     "chatter", FALSE, FALSE, TRUE, FALSE, DefaultThreshold)
    ELSE ChatMapping(<< ModelConfig(platform, account_id, nickname) >>,
                     "agency", TRUE, TRUE, FALSE, FALSE, DefaultThreshold)

\* mutant: the check compares the account id and forgets the platform
AlreadyLinked_AccountOnly(models, platform, account_id) ==
    \E i \in DOMAIN models : models[i].platform_account_id = account_id

\* mutant: the check compares the stored account id with the platform argument
AlreadyLinked_WrongField(models, platform, account_id) ==
    \E i \in DOMAIN models :
        models[i].platform = platform /\ models[i].platform_account_id = platform

\* "Check if model already exists"
AlreadyLinked(models, platform, account_id) ==
    \E i \in DOMAIN models :
        models[i].platform = platform /\ models[i].platform_account_id = account_id

\* mutant: adding a model applies the given chat type's toggles again
AddModel_Retype(mapping, platform, account_id, chat_type, nickname) ==
    [FirstLinkMapping(platform, account_id, chat_type, nickname)
        EXCEPT !.models = Append(mapping.models, ModelConfig(platform, account_id, nickname))]

\* "Add new model": existing_mapping.models.append(ModelConfig(...))
AddModel(mapping, platform, account_id, chat_type, nickname) ==
    [mapping EXCEPT !.models = Append(@, ModelConfig(platform, account_id, nickname))]

\* /link <platform> <account_id> [agency|chatter] [nickname]
cmd_link(chat_id, platform, account_id, chat_type, nickname, faults) ==
    IF platform \notin supported_platforms
    THEN Answer("link", [result |-> mappings, fault |-> {}], "unsupported_platform")
    ELSE \E ld \in LoadOutcomes(faults) :
           IF ld.raised THEN Answer("link", ld, "raised")
           ELSE IF chat_id \in DOMAIN ld.result
           THEN IF AlreadyLinked(ld.result[chat_id].models, platform, account_id)
                THEN Answer("link", ld, "already_linked")
                ELSE /\ Len(ld.result[chat_id].models) < MaxModels
                     /\ SaveAndAnswer("link", ld,
                          With(ld.result, chat_id,
                               AddModel(ld.result[chat_id], platform, account_id,
                                        chat_type, nickname)),
                          {}, faults, "added")
           ELSE SaveAndAnswer("link", ld,
                    With(ld.result, chat_id,
                         FirstLinkMapping(platform, account_id, chat_type, nickname)),
                    {chat_id}, faults, "linked")


\* str.lower() on the strings of the model
Lower(str) ==
    CASE str = "A1" -> "a1"
      [] str = "A2" -> "a2"
      [] str = "Star" -> "star"
      [] str = "ALL" -> "all"
      [] OTHER -> str

\* mutant: an identifier that matches no model selects the first model
FindModel_First(models, model_identifier) == IF models = <<>> THEN 0 ELSE 1

\* mutant: the last matching model is selected, not the first
FindModel_Last(models, model_identifier) ==
    LET hits == { i \in DOMAIN models :
                    \/ Lower(models[i].platform_account_id) = model_identifier
                    \/ /\ models[i].nickname # None
                       /\ Lower(models[i].nickname) = model_identifier }
    IN  IF hits = {} THEN 0 ELSE CHOOSE i \in hits : \A j \in hits : i >= j

\* the first model whose account id or nickname is the identifier (0: none)
FindModel(models, model_identifier) ==
    LET hits == { i \in DOMAIN models :
                    \/ Lower(models[i].platform_account_id) = model_identifier
                    \/ /\ models[i].nickname # None
                       /\ Lower(models[i].nickname) = model_identifier }
    IN  IF hits = {} THEN 0 ELSE CHOOSE i \in hits : \A j \in hits : i <= j

\* list.remove(model_to_remove): the list without its element at index i
RemoveAt(models, i) ==
    [j \in 1..(Len(models) - 1) |-> IF j < i THEN models[j] ELSE models[j + 1]]

\* mutant: the mapping is kept when its last model is removed
RemoveModel_KeepEmpty(ms, chat_id, i) ==
    With(ms, chat_id, [ms[chat_id] EXCEPT !.models = RemoveAt(ms[chat_id].models, i)])

\* "Remove the model" and "If no models left, delete the entire mapping"
RemoveModel(ms, chat_id, i) ==
    IF RemoveAt(ms[chat_id].models, i) = <<>>
    THEN Without(ms, chat_id)
    ELSE With(ms, chat_id, [ms[chat_id] EXCEPT !.models = RemoveAt(ms[chat_id].models, i)])

\* /unlink [all | <model_name_or_id>]; args is context.args
cmd_unlink(chat_id, args, faults) ==
    \E ld \in LoadOutcomes(faults) :
        IF ld.raised THEN Answer("unlink", ld, "raised")
        ELSE IF chat_id \notin DOMAIN ld.result
        THEN Answer("unlink", ld, "not_linked")
        ELSE IF Len(args) = 0
        THEN Answer("unlink", ld, "usage")
        ELSE LET model_identifier == Lower(args[1])
                 found == FindModel(ld.result[chat_id].models, model_identifier)
             IN  IF model_identifier = "all"
                 THEN SaveAndAnswer("unlink", ld, Without(ld.result, chat_id),
                                    {}, faults, "unlinked_all")
                 ELSE IF found = 0
                 THEN Answer("unlink", ld, "model_not_found")
                 ELSE SaveAndAnswer("unlink", ld, RemoveModel(ld.result, chat_id, found),
                          {}, faults,
                          IF chat_id \in DOMAIN RemoveModel(ld.result, chat_id, found)
                          THEN "removed" ELSE "removed_last")

\* int(context.args[1]) on the tokens of the model; other tokens raise ValueError
IntTokens == {"-1", "0", "3", "5", "6"}

ParseInt(token) ==
    CASE token = "-1" -> 0 - 1
      [] token = "0" -> 0
      [] token = "3" -> 3
      [] token = "5" -> 5
      [] token = "6" -> 6

\* mutant: the weekly branch writes the daily toggle
ToggleField_WeeklyIsDaily(setting) ==
    CASE setting = "daily" -> "enable_daily_report"
      [] setting = "weekly" -> "enable_daily_report"
      [] setting = "whale" -> "enable_whale_alerts"
      [] setting = "chatter_report" -> "enable_chatter_report"

\* the ChatMapping field a /config toggle name sets
ToggleField(setting) ==
    CASE setting = "daily" -> "enable_daily_report"
      [] setting = "weekly" -> "enable_weekly_report"
      [] setting = "whale" -> "enable_whale_alerts"
      [] setting = "chatter_report" -> "enable_chatter_report"

\* mutant: the test forgets the upper limit
ThresholdInRange_NoUpper(threshold) == MinThreshold <= threshold

\* the threshold branch's test "0 <= threshold <= 5"
ThresholdInRange(threshold) == MinThreshold <= threshold /\ threshold <= MaxThreshold

\* /config [daily|weekly|whale|chatter_report on|off] [threshold <0-5>]
cmd_config(chat_id, args, faults) ==
    \E ld \in LoadOutcomes(faults) :
        IF ld.raised THEN Answer("config", ld, "raised")
        ELSE IF chat_id \notin DOMAIN ld.result
        THEN Answer("config", ld, "not_linked")
        ELSE IF Len(args) = 0
        THEN Answer("config", ld, "shown")
        ELSE LET setting == Lower(args[1])
                 mapping == ld.result[chat_id]
             IN  IF setting \in {"daily", "weekly", "whale", "chatter_report"} /\ Len(args) >= 2
                 THEN SaveAndAnswer("config", ld,
                          With(ld.result, chat_id,
                               [mapping EXCEPT ![ToggleField(setting)] = (Lower(args[2]) = "on")]),
                          {}, faults, "toggled")
                 ELSE IF setting = "threshold" /\ Len(args) >= 2
                 THEN IF args[2] \notin IntTokens
                      THEN Answer("config", ld, "threshold_invalid")
                      ELSE IF ThresholdInRange(ParseInt(args[2]))
                      THEN SaveAndAnswer("config", ld,
                               With(ld.result, chat_id,
                                    [mapping EXCEPT !.whale_alert_threshold = ParseInt(args[2])]),
                               {}, faults, "threshold_set")
                      ELSE Answer("config", ld, "threshold_range")
                 ELSE Answer("config", ld, "invalid_config")

\* the handler returns after a reply that shows view, without saving
AnswerView(operation, ld, text, view) ==
    /\ op' = operation
    /\ reply' = text
    /\ mappings' = ld.result
    /\ save_status' = "none"
    /\ io_fault' = ld.fault
    /\ shown' = view
    /\ UNCHANGED <<backend, file, db, before>>
    /\ UNCHANGED jobvars

\* "model.nickname or model.platform_account_id"
DisplayName(model) ==
    IF model.nickname # None THEN model.nickname ELSE model.platform_account_id

\* new_subscribers: Optional[int] = None, as a number no count equals
NoCount == 0 - 1

\* "stats.new_subscribers or 0"
OrZero(value) == IF value = NoCount THEN 0 ELSE value

RECURSIVE SumStats(_, _)
\* sum(... for _, s in all_stats) of a field, None counted as 0
SumStats(all_stats, field) ==
    IF all_stats = <<>> THEN 0
    ELSE OrZero(Head(all_stats)[field]) + SumStats(Tail(all_stats), field)

\* a count that the message shows only when it is known and positive
ShownCount(value) == IF OrZero(value) > 0 THEN value ELSE NoCount

\* MessageFormatter.format_revenue: the message for one model
format_revenue(stats, account_id, platform) ==
    [kind |-> "single",
     model |-> account_id,
     platform |-> platform,
     revenue |-> stats.total_amount,
     new_subscribers |-> ShownCount(stats.new_subscribers)]

\* mutant: the total counts the first model only
CombinedView_FirstOnly(models, all_stats) ==
    [kind |-> "combined",
     total_revenue |-> all_stats[1].total_amount,
     new_subscribers |-> ShownCount(all_stats[1].new_subscribers),
     breakdown |-> [i \in DOMAIN models |->
                      [model |-> DisplayName(models[i]),
                       revenue |-> all_stats[i].total_amount,
                       new_subscribers |-> ShownCount(all_stats[i].new_subscribers)]]]

\* "Multiple models - combined view": the totals and the breakdown by model
CombinedView(models, all_stats) ==
    [kind |-> "combined",
     total_revenue |-> SumStats(all_stats, "total_amount"),
     new_subscribers |-> ShownCount(SumStats(all_stats, "new_subscribers")),
     breakdown |-> [i \in DOMAIN models |->
                      [model |-> DisplayName(models[i]),
                       revenue |-> all_stats[i].total_amount,
                       new_subscribers |-> ShownCount(all_stats[i].new_subscribers)]]]

\* the message of /today for the models shown and their statistics
TodayView(models, all_stats) ==
    IF Len(all_stats) = 1
    THEN format_revenue(all_stats[1], DisplayName(models[1]), models[1].platform)
    ELSE CombinedView(models, all_stats)

\* /today [<model_name_or_id>]: replies with the revenue of the chat's models
\* or of the one named; it never saves. With an unknown name the reply quotes
\* mapping.models[0] (IndexError on an empty list). fetches[i] is what
\* calculate_revenue gives for the i-th model shown: one try block holds the
\* loop over the models, so the first failure ends it with the error reply.
cmd_today(chat_id, args, fetches) ==
    \E ld \in LoadOutcomes(FALSE) :
        IF ld.raised THEN Answer("today", ld, "raised")
        ELSE IF chat_id \notin DOMAIN ld.result
        THEN Answer("today", ld, "not_linked")
        ELSE IF Len(args) > 0 /\ FindModel(ld.result[chat_id].models, Lower(args[1])) = 0
        THEN IF ld.result[chat_id].models = <<>>
             THEN Answer("today", ld, "raised")
             ELSE Answer("today", ld, "model_not_found")
        ELSE LET models == ld.result[chat_id].models
                 models_to_show ==
                     IF Len(args) > 0
                     THEN << models[FindModel(models, Lower(args[1]))] >>
                     ELSE models
                 all_stats == [i \in DOMAIN models_to_show |-> fetches[i]]
             IN  IF \E i \in DOMAIN all_stats : ~all_stats[i].ok
                 THEN AnswerView("today", ld, "fetch_failed", NoView)
                 ELSE AnswerView("today", ld, "shown", TodayView(models_to_show, all_stats))

-----------------------------------------------------------------------------
(* The commands users issue. Chat c1 issues every form of every command;   *)
(* chat c2 is a second chat that links and unlinks one of the same         *)
(* accounts.                                                               *)

\* /link arguments as the handler parses them: the platform lower-cased,
\* chat_type None when no type is given
LinkArgs(chat_id) ==
    IF chat_id = "c1"
    THEN { [platform |-> t[1], account_id |-> t[2], chat_type |-> ty, nickname |-> n]
           : t \in {<<"onlyfans", "a1">>, <<"onlyfans", "a2">>, <<"fansly", "a1">>,
                    <<"tiktok", "a1">>},
             ty \in {None, "agency", "chatter"},
             n \in Nicknames }
    ELSE { [platform |-> "onlyfans", account_id |-> "a1", chat_type |-> "chatter",
            nickname |-> None] }

UnlinkArgs(chat_id) ==
    IF chat_id = "c1"
    THEN {<<>>, <<"ALL">>, <<"zz">>} \cup { <<a>> : a \in Accounts }
    ELSE {<<"all">>, <<"a1">>}

ConfigArgs(chat_id) ==
    IF chat_id = "c1"
    THEN {<<>>, <<"threshold">>, <<"color", "on">>}
         \cup { <<s, v>> : s \in {"daily", "chatter_report"}, v \in {"on", "off"} }
         \cup { <<"threshold", t>> : t \in {"-1", "0", "5", "6", "abc"} }
    ELSE {<<>>}

Link ==
    \E c \in Chats : \E a \in LinkArgs(c) :
        cmd_link(c, a.platform, a.account_id, a.chat_type, a.nickname, FALSE)

Unlink == \E c \in Chats : \E args \in UnlinkArgs(c) : cmd_unlink(c, args, FALSE)

Config == \E c \in Chats : \E args \in ConfigArgs(c) : cmd_config(c, args, FALSE)

Next == Link \/ Unlink \/ Config

\* the bot on an empty store, every storage operation succeeding
Spec == Init /\ [][Next]_vars

-----------------------------------------------------------------------------
(* The storage object on the durable states an earlier version of the bot, *)
(* or a crash, can leave behind: load(), save(S) and save(load()).         *)

\* the fields of a stored record that load() defaults when they are absent
OptionalKeys ==
    {"chat_type", "enable_daily_report", "enable_weekly_report",
     "enable_whale_alerts", "enable_chatter_report", "whale_alert_threshold"}

\* stored values of those fields, each one different from its default
StoredOptional ==
    [chat_type |-> "chatter",
     enable_daily_report |-> FALSE,
     enable_weekly_report |-> FALSE,
     enable_whale_alerts |-> FALSE,
     enable_chatter_report |-> TRUE,
     whale_alert_threshold |-> 2]

\* the model part of a stored record: the old single-model shape, a models
\* list (entries with and without a nickname), both, neither, an empty list,
\* and a models list with an entry that lacks its platform
ModelParts ==
    { [platform |-> "onlyfans", platform_account_id |-> "a1"],
      [models |-> << [platform |-> "onlyfans", platform_account_id |-> "a1",
                      nickname |-> "Star"],
                     [platform |-> "fansly", platform_account_id |-> "a2"] >>],
      [platform |-> "fansly", platform_account_id |-> "a2",
       models |-> << [platform |-> "onlyfans", platform_account_id |-> "a1",
                      nickname |-> None] >>],
      [k \in {} |-> {}],
      [models |-> <<>>],
      [models |-> << [platform_account_id |-> "a1", nickname |-> "Star"] >>] }

\* the records chat_mapping.json can hold for a chat
FileRecords ==
    { [k \in K |-> StoredOptional[k]] @@ part : K \in SUBSET OptionalKeys, part \in ModelParts }

\* the states of chat_mapping.json: c1 holds any record, c2 a current or an old one
FileStates ==
    {MissingFile, GarbageFile}
    \cup { JsonFile(data) :
             data \in UNION { [D -> FileRecords] : D \in {{}, {"c1"}} } }
    \cup { JsonFile(data @@ [c \in {"c2"} |-> r]) :
             data \in UNION { [D -> FileRecords] : D \in {{}, {"c1"}} },
             r \in { [platform |-> "onlyfans", platform_account_id |-> "a1"],
                     SaveRecord(ChatMapping(<< ModelConfig("onlyfans", "a1", None) >>,
                                            "agency", TRUE, TRUE, FALSE, FALSE, 0)) } }

\* the rows of the two tables for one chat
DbRows ==
    { [chat |-> [chat_type |-> "chatter", enable_daily_report |-> FALSE,
                 enable_weekly_report |-> FALSE, enable_monthly_report |-> FALSE,
                 enable_whale_alerts |-> TRUE, enable_chatter_report |-> TRUE,
                 whale_alert_threshold |-> 2],
       models |-> << ModelConfig("onlyfans", "a1", "Star"),
                     ModelConfig("fansly", "a2", None) >>],
      [chat |-> [chat_type |-> "agency", enable_daily_report |-> TRUE,
                 enable_weekly_report |-> TRUE, enable_monthly_report |-> TRUE,
                 enable_whale_alerts |-> TRUE, enable_chatter_report |-> FALSE,
                 whale_alert_threshold |-> DefaultThreshold],
       models |-> << ModelConfig("onlyfans", "a1", None) >>],
      [chat |-> [chat_type |-> "agency", enable_daily_report |-> TRUE,
                 enable_weekly_report |-> FALSE, enable_monthly_report |-> TRUE,
                 enable_whale_alerts |-> FALSE, enable_chatter_report |-> FALSE,
                 whale_alert_threshold |-> 0],
       models |-> <<>>] }

\* the states of the database
DbStates ==
    { [chats |-> [c \in DOMAIN rows |-> rows[c].chat],
       models |-> [c \in DOMAIN rows |-> rows[c].models]]
      : rows \in UNION { [D -> DbRows] : D \in SUBSET Chats } }

\* the mappings save() is given for a chat; the last one lists a pair twice
SavedMappings ==
    { ChatMapping(<< ModelConfig("onlyfans", "a1", "Star"), ModelConfig("fansly", "a2", None) >>,
                  "chatter", FALSE, FALSE, TRUE, TRUE, 2),
      ChatMapping(<< ModelConfig("fansly", "a1", None) >>,
                  "agency", TRUE, TRUE, FALSE, FALSE, DefaultThreshold),
      ChatMapping(<<>>, "agency", TRUE, TRUE, TRUE, FALSE, 5),
      ChatMapping(<< ModelConfig("onlyfans", "a1", None), ModelConfig("onlyfans", "a1", "Star") >>,
                  "agency", TRUE, FALSE, TRUE, FALSE, 1) }

\* the mapping sets save() is given: any of these mappings or none for c1,
\* with and without a second chat
SavedSets ==
    UNION { [D -> SavedMappings] : D \in {{}, {"c1"}} }
    \cup { ms @@ [c \in {"c2"} |-> ChatMapping(<< ModelConfig("onlyfans", "a1", None) >>,
                                               "chatter", FALSE, FALSE, TRUE, FALSE, 3)]
           : ms \in UNION { [D -> SavedMappings] : D \in {{}, {"c1"}} } }

\* the bot started on a store that an earlier run left behind
InitStore ==
    /\ backend \in {"file", "db"}
    /\ file \in IF backend = "file" THEN FileStates ELSE {MissingFile}
    /\ db \in IF backend = "db" THEN DbStates ELSE {EmptyDb}
    /\ mappings = EmptyMappings
    /\ op = "init"
    /\ reply = "none"
    /\ save_status = "none"
    /\ io_fault = {}
    /\ before = EmptyMappings
    /\ job_pass = NoPass
    /\ bot_data = EmptyBotData
    /\ now = StartTime
    /\ shown = NoView

\* mappings = storage.load()
storage_load(faults) ==
    \E ld \in LoadOutcomes(faults) :
        /\ op' = "load"
        /\ reply' = IF ld.raised THEN "raised" ELSE "returned"
        /\ mappings' = ld.result
        /\ save_status' = "none"
        /\ io_fault' = ld.fault
        /\ before' = Durable
        /\ UNCHANGED <<backend, file, db>>
        /\ UNCHANGED <<jobvars, shown>>

\* storage.save(S)
storage_save(S, faults) ==
    \E out \in SaveOutcomes(S, {}, faults) :
        /\ op' = "save"
        /\ reply' = IF out.status = "failed_raised" THEN "raised" ELSE "returned"
        /\ mappings' = S
        /\ save_status' = out.status
        /\ io_fault' = out.fault
        /\ before' = Durable
        /\ file' = out.file
        /\ db' = out.db
        /\ UNCHANGED backend
        /\ UNCHANGED <<jobvars, shown>>

\* storage.save(storage.load()); mappings keeps what the load returned
storage_roundtrip(faults) ==
    \E ld \in LoadOutcomes(faults) :
        IF ld.raised
        THEN /\ op' = "roundtrip"
             /\ reply' = "raised"
             /\ mappings' = ld.result
             /\ save_status' = "none"
             /\ io_fault' = ld.fault
             /\ before' = Durable
             /\ UNCHANGED <<backend, file, db>>
             /\ UNCHANGED <<jobvars, shown>>
        ELSE \E out \in SaveOutcomes(ld.result, {}, faults) :
             /\ op' = "roundtrip"
             /\ reply' = IF out.status = "failed_raised" THEN "raised" ELSE "returned"
             /\ mappings' = ld.result
             /\ save_status' = out.status
             /\ io_fault' = (ld.fault \cup out.fault)
             /\ before' = Durable
             /\ file' = out.file
             /\ db' = out.db
             /\ UNCHANGED backend
             /\ UNCHANGED <<jobvars, shown>>

Load == storage_load(FALSE)

Save == \E S \in SavedSets : storage_save(S, FALSE)

RoundTrip == storage_roundtrip(FALSE)

NextStore == Load \/ Save \/ RoundTrip

\* the storage object, every file and database operation succeeding
SpecStore == InitStore /\ [][NextStore]_vars

LoadFault == storage_load(TRUE)

SaveFault == \E S \in SavedSets : storage_save(S, TRUE)

RoundTripFault == storage_roundtrip(TRUE)

NextStoreFault == LoadFault \/ SaveFault \/ RoundTripFault

\* the storage object, any file or database operation failing
SpecStoreFault == InitStore /\ [][NextStoreFault]_vars

-----------------------------------------------------------------------------
(* Scheduled jobs: daily_report_job, weekly_report_job, chatter_report_job *)
(* and whale_alert_job. A pass loads the mappings once and walks over      *)
(* mappings.items(); it can be suspended only at an await, that is at a    *)
(* send_message, so a chat's processing up to and including its send is    *)
(* one step and other handlers run between the chats of a pass.            *)

\* a chat id that int(chat_id) rejects (ValueError)
NonNumericChat == "group"

\* int(chat_id) succeeds
IsNumeric(chat_id) == chat_id # NonNumericChat

\* obj.name on a dataclass instance raises AttributeError when the class has
\* no such field
HasAttr(obj, name) == name \in DOMAIN obj

\* the toggle each job tests before it processes a chat
JobToggle(job) ==
    CASE job = "daily" -> "enable_daily_report"
      [] job = "weekly" -> "enable_weekly_report"
      [] job = "chatter" -> "enable_chatter_report"
      [] job = "whale" -> "enable_whale_alerts"

\* the time range a revenue job asks for
JobRange(job) ==
    CASE job = "daily" -> "previous_of_day"
      [] job = "weekly" -> "last_7_of_days"

\* the body of the try block of daily_report_job and weekly_report_job for
\* one chat: calculate_revenue(mapping.platform, mapping.platform_account_id,
\* ...), format_revenue, send_message(int(chat_id)). It raises an
\* AttributeError when mapping has no attribute platform.
\* Returns what was sent and whether an exception reached the except clause.
revenue_report(job, chat_id, mapping, fetch_ok, send_ok) ==
    IF ~HasAttr(mapping, "platform") \/ ~HasAttr(mapping, "platform_account_id")
    THEN [sent |-> <<>>, raised |-> TRUE]
    ELSE IF ~fetch_ok \/ ~IsNumeric(chat_id) \/ ~send_ok
    THEN [sent |-> <<>>, raised |-> TRUE]
    ELSE [sent |-> << [chat_id |-> chat_id, kind |-> job, range |-> JobRange(job),
                       account |-> mapping.platform_account_id] >>,
          raised |-> FALSE]

\* chatter_tracker.MIN_MESSAGES_THRESHOLD
MIN_MESSAGES_THRESHOLD == 50

\* chatter_tracker.ChatterStats; sales in dollars, the response time in seconds
\* and the conversion rate in 1/10000
ChatterStats(chatter_name, total_sales, avg_response_time_seconds, ppv_conversion_rate, total_messages, template_messages, manual_messages) ==
    [chatter_name |-> chatter_name,
     total_sales |-> total_sales,
     avg_response_time_seconds |-> avg_response_time_seconds,
     ppv_conversion_rate |-> ppv_conversion_rate,
     total_messages |-> total_messages,
     template_messages |-> template_messages,
     manual_messages |-> manual_messages]

RECURSIVE SortBySales_TiesLast(_)
\* mutant: an entry goes behind the later entries with the same sales
SortBySales_TiesLast(stats) ==
    IF stats = <<>> THEN <<>>
    ELSE LET rest == SortBySales_TiesLast(Tail(stats))
             x == Head(stats)
             k == Cardinality({ i \in DOMAIN rest : rest[i].total_sales >= x.total_sales })
         IN  SubSeq(rest, 1, k) \o <<x>> \o SubSeq(rest, k + 1, Len(rest))

RECURSIVE SortBySales(_)
\* list.sort(key=lambda x: x.total_sales, reverse=True): stable, highest first
SortBySales(stats) ==
    IF stats = <<>> THEN <<>>
    ELSE LET rest == SortBySales(Tail(stats))
             x == Head(stats)
             k == Cardinality({ i \in DOMAIN rest : rest[i].total_sales > x.total_sales })
         IN  SubSeq(rest, 1, k) \o <<x>> \o SubSeq(rest, k + 1, Len(rest))

\* mutant: every chatter of the answer is returned
get_chatter_performance_All(chatters) == chatters

\* ChatterPerformanceClient.get_chatter_performance on an answered request:
\* the chatters with at least MIN_MESSAGES_THRESHOLD messages, by sales
get_chatter_performance(chatters) ==
    SortBySales(SelectSeq(chatters, LAMBDA c : c.total_messages >= MIN_MESSAGES_THRESHOLD))

RECURSIVE FetchAll_StopAtFailure(_, _, _)
\* mutant: the first failed fetch ends the loop over the models
FetchAll_StopAtFailure(models, responses, i) ==
    IF i > Len(models) \/ ~responses[i].ok THEN [stats |-> <<>>, model_names |-> <<>>]
    ELSE LET rest == FetchAll_StopAtFailure(models, responses, i + 1)
         IN  [stats |-> responses[i].chatters \o rest.stats,
              model_names |-> <<models[i].platform_account_id>> \o rest.model_names]

RECURSIVE FetchAll(_, _, _)
\* the loop "for model in mapping.models" of chatter_report_job from model i:
\* a failed fetch is logged and the loop continues with the next model
FetchAll(models, responses, i) ==
    IF i > Len(models) THEN [stats |-> <<>>, model_names |-> <<>>]
    ELSE LET rest == FetchAll(models, responses, i + 1)
         IN  IF ~responses[i].ok THEN rest
             ELSE [stats |-> get_chatter_performance(responses[i].chatters) \o rest.stats,
                   model_names |->
                       << IF models[i].nickname # None
                          THEN models[i].nickname
                          ELSE models[i].platform_account_id >> \o rest.model_names]

RECURSIVE FirstSeen(_)
\* the keys of combined_chatters in insertion order
FirstSeen(stats) ==
    IF stats = <<>> THEN <<>>
    ELSE LET before_last == FirstSeen(SubSeq(stats, 1, Len(stats) - 1))
             name == stats[Len(stats)].chatter_name
         IN  IF \E i \in DOMAIN before_last : before_last[i] = name
             THEN before_last
             ELSE Append(before_last, name)

RECURSIVE SumOf(_, _, _)
\* sum of a field over the records of one chatter
SumOf(stats, name, field) ==
    IF stats = <<>> THEN 0
    ELSE (IF Head(stats).chatter_name = name THEN Head(stats)[field] ELSE 0)
         + SumOf(Tail(stats), name, field)

\* mutant: the mean weighs each record by its messages
MeanOf_Weighted(stats, name, field) ==
    LET weighted == [i \in DOMAIN stats |->
                       [stats[i] EXCEPT ![field] = @ * stats[i].total_messages]]
    IN  SumOf(weighted, name, field) \div SumOf(stats, name, "total_messages")

\* sum(data[...]) / len(data[...]) over the values appended for one chatter;
\* the answers below hold multiples of 12, which makes the division exact
MeanOf(stats, name, field) ==
    SumOf(stats, name, field)
        \div Len(SelectSeq(stats, LAMBDA record : record.chatter_name = name))

\* "Combine chatters with same name (across multiple models)", then
\* "Sort by sales (highest first)"
CombineChatters(stats) ==
    SortBySales([i \in 1..Len(FirstSeen(stats)) |->
                   ChatterStats(FirstSeen(stats)[i],
                                SumOf(stats, FirstSeen(stats)[i], "total_sales"),
                                MeanOf(stats, FirstSeen(stats)[i], "avg_response_time_seconds"),
                                MeanOf(stats, FirstSeen(stats)[i], "ppv_conversion_rate"),
                                SumOf(stats, FirstSeen(stats)[i], "total_messages"),
                                SumOf(stats, FirstSeen(stats)[i], "template_messages"),
                                SumOf(stats, FirstSeen(stats)[i], "manual_messages"))])

\* the body of the try block of chatter_report_job for one chat with models
chatter_report(chat_id, mapping, responses, send_ok) ==
    LET fetched == FetchAll(mapping.models, responses, 1)
    IN  IF fetched.stats = <<>>
        THEN [sent |-> <<>>, raised |-> FALSE]
        ELSE IF ~IsNumeric(chat_id) \/ ~send_ok
        THEN [sent |-> <<>>, raised |-> TRUE]
        ELSE [sent |-> << [chat_id |-> chat_id, kind |-> "chatter",
                           chatters |-> CombineChatters(fetched.stats),
                           models |-> fetched.model_names] >>,
              raised |-> FALSE]

\* "Only alert if we haven't alerted in last 30 minutes", in seconds
AlertWindow == 1800

\* mutant: every qualifying fan is alerted again
AlertDue_Always(current_time, last_alert) == TRUE

\* alert_key = f"whale_{chat_id}_{fan_id}"
alert_key(chat_id, fan_id) == "whale_" \o chat_id \o "_" \o fan_id

\* the test that lets an alert for a qualifying fan through
AlertDue(current_time, last_alert) == current_time - last_alert > AlertWindow

RECURSIVE whale_fans(_, _, _, _, _, _, _)
\* the loop "for fan in fans" of whale_alert_job from fan i, run at time t on
\* bot_data bd. The alert text reads mapping.platform_account_id; that
\* AttributeError and a failed send raise out of the loop, before the key is
\* marked.
whale_fans(chat_id, mapping, fans, i, bd, t, send_oks) ==
    IF i > Len(fans) THEN [bot_data |-> bd, sent |-> <<>>, raised |-> FALSE]
    ELSE LET buying_power == Get(fans[i], "buying_power", 0)
             key == alert_key(chat_id, Get(fans[i], "id", ""))
             last_alert == Get(bd, key, 0)
         IN  IF buying_power >= mapping.whale_alert_threshold /\ AlertDue(t, last_alert)
             THEN IF \/ ~HasAttr(mapping, "platform_account_id")
                     \/ ~IsNumeric(chat_id)
                     \/ ~send_oks[i]
                  THEN [bot_data |-> bd, sent |-> <<>>, raised |-> TRUE]
                  ELSE LET rest == whale_fans(chat_id, mapping, fans, i + 1,
                                              With(bd, key, t), t, send_oks)
                       IN  [bot_data |-> rest.bot_data,
                            sent |-> << [chat_id |-> chat_id, kind |-> "whale",
                                         fan |-> Get(fans[i], "id", ""),
                                         buying_power |-> buying_power] >> \o rest.sent,
                            raised |-> rest.raised]
             ELSE whale_fans(chat_id, mapping, fans, i + 1, bd, t, send_oks)

\* the body of the try block of whale_alert_job for one chat: the URL is
\* built from mapping.platform and mapping.platform_account_id (AttributeError
\* when mapping has no such attribute); a status other than 200 skips the chat
whale_check(chat_id, mapping, response, bd, t, send_oks) ==
    IF ~HasAttr(mapping, "platform") \/ ~HasAttr(mapping, "platform_account_id")
    THEN [bot_data |-> bd, sent |-> <<>>, raised |-> TRUE]
    ELSE IF response.status_code # 200
    THEN [bot_data |-> bd, sent |-> <<>>, raised |-> FALSE]
    ELSE whale_fans(chat_id, mapping, response.fans, 1, bd, t, send_oks)

\* mutant: the exception of a chat leaves the job
Caught_Escapes(job) == FALSE

\* "except Exception as e: logger.error(...)" around each chat of each job
Caught(job) == TRUE

\* the answers of the chatter-performance endpoint for one account
ChatterResponses ==
    { [ok |-> FALSE, chatters |-> <<>>],
      [ok |-> TRUE,
       chatters |-> << ChatterStats("Ann", 100, 120, 6000, 60, 12, 48) >>],
      [ok |-> TRUE,
       chatters |-> << ChatterStats("Ann", 50, 60, 2400, 49, 9, 40),
                       ChatterStats("Bob", 70, 36, 1200, 50, 0, 50) >>] }

\* answers of the endpoint in which one chatter works on several accounts,
\* sales tie, and records stay below the threshold
MergeResponses ==
    { [ok |-> FALSE, chatters |-> <<>>],
      [ok |-> TRUE,
       chatters |-> << ChatterStats("Marc", 200, 120, 6000, 80, 20, 60) >>],
      [ok |-> TRUE,
       chatters |-> << ChatterStats("Marc", 50, 60, 2400, 60, 12, 48),
                       ChatterStats("Zoe", 250, 36, 1200, 55, 5, 50) >>],
      [ok |-> TRUE,
       chatters |-> << ChatterStats("Ann", 300, 24, 4800, 49, 9, 40),
                       ChatterStats("Bob", 70, 48, 3600, 50, 0, 50) >>],
      [ok |-> TRUE,
       chatters |-> << ChatterStats("Ann", 40, 72, 1200, 30, 6, 24),
                       ChatterStats("Marc", 60, 84, 2400, 49, 1, 48) >>],
      [ok |-> TRUE,
       chatters |-> << ChatterStats("Bob", 70, 12, 1200, 50, 25, 25),
                       ChatterStats("Zoe", 70, 96, 8400, 90, 30, 60) >>] }

\* the answers of the fans/online endpoint
WhaleResponses ==
    { [status_code |-> 500, fans |-> <<>>],
      [status_code |-> 200, fans |-> << [id |-> "f1", buying_power |-> 4] >>] }

\* the orders in which mappings.items() can yield the chats
Orders(chat_ids) ==
    { order \in UNION { [1..n -> chat_ids] : n \in {Cardinality(chat_ids)} } :
        \A i, j \in DOMAIN order : i # j => order[i] # order[j] }

\* a job starts: mappings = storage.load(); "if not mappings: return"
job_start(job) ==
    /\ job_pass.todo = <<>>
    /\ \E ld \in LoadOutcomes(FALSE) : \E order \in Orders(DOMAIN ld.result) :
          job_pass' = [job |-> job, snapshot |-> ld.result, todo |-> order,
                       done |-> <<>>, sent |-> <<>>, failed |-> {}]
    /\ op' = "job_start"
    /\ UNCHANGED <<backend, file, db, mappings, reply, save_status, io_fault, before,
                   bot_data, now, shown>>

\* what processing one chat of the pass does: the toggle test, then the try
\* block of the job
job_chat(job, chat_id, mapping, fetch_ok, responses, whale_response, send_ok) ==
    IF ~mapping[JobToggle(job)]
    THEN [bot_data |-> bot_data, sent |-> <<>>, raised |-> FALSE]
    ELSE CASE job \in {"daily", "weekly"} ->
                [bot_data |-> bot_data] @@ revenue_report(job, chat_id, mapping, fetch_ok, send_ok)
           [] job = "chatter" ->
                IF mapping.models = <<>>
                THEN [bot_data |-> bot_data, sent |-> <<>>, raised |-> FALSE]
                ELSE [bot_data |-> bot_data] @@ chatter_report(chat_id, mapping, responses, send_ok)
           [] job = "whale" ->
                whale_check(chat_id, mapping, whale_response, bot_data, now,
                            [i \in 1..Len(whale_response.fans) |-> send_ok])

\* mutant: the pass looks the chat up in the store again
PassMapping_Reload(chat_id) ==
    IF chat_id \in DOMAIN Durable THEN Durable[chat_id] ELSE job_pass.snapshot[chat_id]

\* the mapping the loop variable holds for chat_id: the one of mappings.items()
PassMapping(chat_id) == job_pass.snapshot[chat_id]

\* what the analytics API and Telegram answer while one chat is processed:
\* each job meets the answers of the requests it makes
JobInputs(job, mapping) ==
    { [fetch_ok |-> f, send_ok |-> s, responses |-> rs, whale_response |-> w] :
        f \in IF job \in {"daily", "weekly"} THEN BOOLEAN ELSE {TRUE},
        s \in BOOLEAN,
        rs \in IF job = "chatter"
               THEN [1..Len(mapping.models) -> ChatterResponses]
               ELSE {<<>>},
        w \in IF job = "whale" THEN WhaleResponses
              ELSE {[status_code |-> 200, fans |-> <<>>]} }

\* the pass processes its next chat while the API and Telegram answer as in
\* env; an exception that is not caught ends the pass
job_step_with(env) ==
    /\ job_pass.todo # <<>>
    /\ LET chat_id == Head(job_pass.todo)
           r == job_chat(job_pass.job, chat_id, PassMapping(chat_id),
                         env.fetch_ok, env.responses, env.whale_response, env.send_ok)
       IN  /\ job_pass' = [job_pass EXCEPT
                             !.todo = IF r.raised /\ ~Caught(job_pass.job)
                                      THEN <<>> ELSE Tail(@),
                             !.done = Append(@, chat_id),
                             !.sent = @ \o r.sent,
                             !.failed = IF r.raised THEN @ \cup {chat_id} ELSE @]
           /\ bot_data' = r.bot_data
    /\ op' = "job_step"
    /\ UNCHANGED <<backend, file, db, mappings, reply, save_status, io_fault, before, now,
                   shown>>

\* the pass processes its next chat
job_step ==
    /\ job_pass.todo # <<>>
    /\ \E env \in JobInputs(job_pass.job, PassMapping(Head(job_pass.todo))) :
          job_step_with(env)

\* the mapping sets the jobs find in the store when the bot starts: c1 with
\* two models and every toggle on or every toggle off, alone, with c2 (one
\* model) or with a chat whose id is not a number
JobSets ==
    { m1 @@ m2 :
        m1 \in { [c \in {"c1"} |->
                    ChatMapping(<< ModelConfig("onlyfans", "a1", "Star"),
                                   ModelConfig("fansly", "a2", None) >>,
                                "agency", on, on, on, on, DefaultThreshold)]
                 : on \in BOOLEAN },
        m2 \in { EmptyMappings,
                 [c \in {"c2"} |->
                    ChatMapping(<< ModelConfig("onlyfans", "a1", None) >>,
                                "chatter", TRUE, TRUE, TRUE, TRUE, 2)],
                 [c \in {NonNumericChat} |->
                    ChatMapping(<< ModelConfig("onlyfans", "a2", None) >>,
                                "agency", TRUE, TRUE, TRUE, TRUE, 0)] } }

\* the bot started on a store that holds one of these mapping sets
InitJobs ==
    /\ backend \in {"file", "db"}
    /\ \E S \in JobSets \cup {EmptyMappings} :
          /\ file = IF backend = "file"
                    THEN StorageManagerSave(MissingFile, S, "all") ELSE MissingFile
          /\ db = IF backend = "db" THEN SaveEach(EmptyDb, S, DOMAIN S) ELSE EmptyDb
    /\ mappings = EmptyMappings
    /\ op = "init"
    /\ reply = "none"
    /\ save_status = "none"
    /\ io_fault = {}
    /\ before = EmptyMappings
    /\ job_pass = NoPass
    /\ bot_data = EmptyBotData
    /\ now = StartTime
    /\ shown = NoView

JobStart == \E job \in {"daily", "weekly", "chatter", "whale"} : job_start(job)

JobStep == job_step

\* the commands that arrive while the jobs run
JobCommand ==
    \/ \E v \in {"on", "off"} : cmd_config("c1", <<"chatter_report", v>>, FALSE)
    \/ cmd_unlink("c2", <<"all">>, FALSE)
    \/ cmd_link("c2", "onlyfans", "a1", "chatter", None, FALSE)

NextJobs == JobStart \/ JobStep \/ JobCommand

\* the mapping sets of the chatter reports: c1 with two models, alone or with
\* c2 that has one; both with the chatter report on
MergeSets ==
    { m1 @@ m2 :
        m1 \in { [c \in {"c1"} |->
                    ChatMapping(<< ModelConfig("onlyfans", "a1", "Star"),
                                   ModelConfig("fansly", "a2", None) >>,
                                "agency", TRUE, TRUE, FALSE, TRUE, DefaultThreshold)] },
        m2 \in { EmptyMappings,
                 [c \in {"c2"} |->
                    ChatMapping(<< ModelConfig("onlyfans", "a1", None) >>,
                                "chatter", FALSE, FALSE, TRUE, TRUE, DefaultThreshold)] } }

InitMerge ==
    /\ backend \in {"file", "db"}
    /\ \E S \in MergeSets :
          /\ file = IF backend = "file"
                    THEN StorageManagerSave(MissingFile, S, "all") ELSE MissingFile
          /\ db = IF backend = "db" THEN SaveEach(EmptyDb, S, DOMAIN S) ELSE EmptyDb
    /\ mappings = EmptyMappings
    /\ op = "init"
    /\ reply = "none"
    /\ save_status = "none"
    /\ io_fault = {}
    /\ before = EmptyMappings
    /\ job_pass = NoPass
    /\ bot_data = EmptyBotData
    /\ now = StartTime
    /\ shown = NoView

\* the chatter pass processes its next chat, the endpoint answering rs for
\* the accounts of the chat and Telegram accepting the message
merge_step_with(rs) ==
    job_step_with([fetch_ok |-> TRUE, send_ok |-> TRUE, responses |-> rs,
                   whale_response |-> [status_code |-> 200, fans |-> <<>>]])

MergeStart == job_start("chatter")

MergeStep ==
    /\ job_pass.todo # <<>>
    /\ \E rs \in [1..Len(PassMapping(Head(job_pass.todo)).models) -> MergeResponses] :
          merge_step_with(rs)

NextMerge == MergeStart \/ MergeStep

\* commands of chat c2 while file and database operations can fail, on a
\* store that holds c1
FaultLink == cmd_link("c2", "onlyfans", "a2", None, None, TRUE)

FaultUnlink == cmd_unlink("c2", <<"all">>, TRUE)

FaultConfig == cmd_config("c2", <<"daily", "off">>, TRUE)

NextFault == FaultLink \/ FaultUnlink \/ FaultConfig

\* the command handlers of one chat over a store whose steps can fail
SpecFault == InitMerge /\ [][NextFault]_vars

\* the daily chatter report job alone, on chats with the report on
SpecMerge == InitMerge /\ [][NextMerge]_vars

\* the scheduled jobs and the command handlers in one event loop
SpecJobs == InitJobs /\ [][NextJobs]_vars

-----------------------------------------------------------------------------
(* Properties of the command handlers *)

\* the (platform, account_id) pair is in the models of the chat in mapping set ms
PairLinked(ms, c, platform, account_id) ==
    /\ c \in DOMAIN ms
    /\ \E i \in DOMAIN ms[c].models :
          /\ ms[c].models[i].platform = platform
          /\ ms[c].models[i].platform_account_id = account_id

\* C1: a /link of a (platform, account_id) pair that is already in the models
\* of the same chat is rejected and leaves the durable mapping set unchanged;
\* a /link of a pair that is linked in a different chat and not in this one is
\* accepted and adds the pair to this chat.
C1_LinkTwice ==
    [][\A c \in Chats : \A a \in LinkArgs(c) :
          (op' = "link" /\ cmd_link(c, a.platform, a.account_id, a.chat_type, a.nickname, FALSE)) =>
            /\ PairLinked(Durable, c, a.platform, a.account_id) =>
                  /\ reply' = "already_linked"
                  /\ Durable' = Durable
                  /\ UNCHANGED <<file, db>>
            /\ (/\ ~PairLinked(Durable, c, a.platform, a.account_id)
                /\ \E o \in Chats \ {c} : PairLinked(Durable, o, a.platform, a.account_id)) =>
                  /\ reply' \in {"linked", "added"}
                  /\ PairLinked(Durable', c, a.platform, a.account_id)
                  /\ \A o \in Chats \ {c} :
                        PairLinked(Durable', o, a.platform, a.account_id)
                        = PairLinked(Durable, o, a.platform, a.account_id)
      ]_vars

\* C1 witness: a /link was rejected as a duplicate in c1 while c2 holds the same pair
C1_Witness ==
    /\ op = "link"
    /\ reply = "already_linked"
    /\ PairLinked(Durable, "c1", "onlyfans", "a1")
    /\ PairLinked(Durable, "c2", "onlyfans", "a1")
    /\ Len(Durable["c1"].models) = 2

\* C2: no stored chat has two model entries with the same (platform, account_id)
C2_UniquePairs ==
    \A c \in DOMAIN Durable :
        \A i, j \in DOMAIN Durable[c].models :
            (/\ Durable[c].models[i].platform = Durable[c].models[j].platform
             /\ Durable[c].models[i].platform_account_id
                  = Durable[c].models[j].platform_account_id)
            => i = j

\* C2 witness: a chat stores two models after link, unlink and config commands
C2_Witness ==
    /\ "c1" \in DOMAIN Durable
    /\ Len(Durable["c1"].models) = 2
    /\ Durable["c1"].models[1].platform_account_id = Durable["c1"].models[2].platform_account_id
    /\ Durable["c1"].enable_chatter_report
    /\ op = "unlink"

\* C3: no stored chat mapping has an empty model list, and unlinking the last
\* model of a chat, or /unlink all, removes the chat's mapping from durable state
C3_NoEmptyMapping ==
    [][/\ \A c \in DOMAIN Durable' : Len(Durable'[c].models) >= 1
       /\ file'.kind = "json" => \A c \in DOMAIN file'.data : file'.data[c].models # <<>>
       /\ \A c \in DOMAIN db'.chats : db'.models[c] # <<>>
       /\ \A c \in Chats : \A args \in UnlinkArgs(c) :
            (/\ op' = "unlink"
             /\ cmd_unlink(c, args, FALSE)
             /\ c \in DOMAIN Durable
             /\ \/ args \in {<<"all">>, <<"ALL">>}
                \/ /\ Len(Durable[c].models) = 1
                   /\ args # <<>>
                   /\ Durable[c].models[1].platform_account_id = args[1])
            => /\ c \notin DOMAIN Durable'
               /\ reply' \in {"unlinked_all", "removed_last"}
               /\ \A o \in DOMAIN Durable \ {c} : o \in DOMAIN Durable' /\ Durable'[o] = Durable[o]
      ]_vars

\* C3 witness: the last model of c1 was unlinked by name and c1 is gone, c2 is kept
C3_Witness ==
    /\ op = "unlink"
    /\ reply = "removed_last"
    /\ DOMAIN Durable = {"c2"}

\* C4: /config threshold n with n outside 0..5 is rejected and leaves the
\* store unchanged; n = 0 and n = 5 are accepted and stored; the stored
\* threshold of every chat stays within 0..5
C4_Threshold ==
    [][/\ \A c \in DOMAIN Durable' : Durable'[c].whale_alert_threshold \in 0..5
       /\ \A c \in Chats :
            /\ \A t \in {"-1", "6"} :
                 (/\ op' = "config"
                  /\ c \in DOMAIN Durable
                  /\ cmd_config(c, <<"threshold", t>>, FALSE))
                 => /\ reply' = "threshold_range"
                    /\ Durable' = Durable
                    /\ UNCHANGED <<file, db>>
            /\ (/\ op' = "config"
                /\ c \in DOMAIN Durable
                /\ cmd_config(c, <<"threshold", "0">>, FALSE))
                 => /\ reply' = "threshold_set"
                    /\ Durable' = [Durable EXCEPT ![c].whale_alert_threshold = 0]
            /\ (/\ op' = "config"
                /\ c \in DOMAIN Durable
                /\ cmd_config(c, <<"threshold", "5">>, FALSE))
                 => /\ reply' = "threshold_set"
                    /\ Durable' = [Durable EXCEPT ![c].whale_alert_threshold = 5]
      ]_vars

\* C4 witness: threshold 5 was stored and a later out-of-range value was refused
C4_Witness ==
    /\ op = "config"
    /\ reply = "threshold_range"
    /\ Durable["c1"].whale_alert_threshold = 5

-----------------------------------------------------------------------------
(* Properties of the storage object *)

\* C5: after a save(S) that completes, the durable mapping set (what a load
\* returns) has exactly the chats of S, each as given: every chat that was
\* stored before the save and is not a key of S is absent
C5_SaveReplaces ==
    (op = "save" /\ save_status = "ok") =>
        /\ DOMAIN Durable = DOMAIN mappings
        /\ \A c \in DOMAIN before \ DOMAIN mappings : c \notin DOMAIN Durable
        /\ \A c \in DOMAIN mappings : Durable[c] = mappings[c]

\* C5 witness: a database save of {c2} completed on a store that held c1 and c2
C5_Witness ==
    /\ op = "save"
    /\ save_status = "ok"
    /\ backend = "db"
    /\ DOMAIN before = {"c1", "c2"}
    /\ DOMAIN mappings = {"c2"}
    /\ DOMAIN Durable = {"c2"}

\* C6: after save(load()) the durable mapping set equals, field for field and
\* model for model in order, what the first load returned (kept in mappings)
C6_RoundTrip ==
    op = "roundtrip" =>
        /\ save_status = "ok"
        /\ DOMAIN Durable = DOMAIN mappings
        /\ \A c \in DOMAIN mappings :
              /\ Durable[c].models = mappings[c].models
              /\ \A k \in OptionalKeys : Durable[c][k] = mappings[c][k]

\* C6 witness: a round trip of a file in which c1 had an older-schema record
\* with two models and c2 the old single-model record
C6_Witness ==
    /\ op = "roundtrip"
    /\ backend = "file"
    /\ DOMAIN mappings = {"c1", "c2"}
    /\ Len(mappings["c1"].models) = 2
    /\ mappings["c1"].models[1].nickname = "Star"
    /\ mappings["c2"].enable_whale_alerts
    /\ mappings["c2"].whale_alert_threshold = 4
    /\ file.data["c2"].models[1].nickname = None

\* a record with the top-level platform and platform_account_id and nothing else
LegacyOnly(r) == DOMAIN r = {"platform", "platform_account_id"}

DocumentedDefault ==
    [chat_type |-> "agency",
     enable_daily_report |-> TRUE,
     enable_weekly_report |-> TRUE,
     enable_whale_alerts |-> TRUE,
     enable_chatter_report |-> FALSE,
     whale_alert_threshold |-> 4]

\* C8: the flat-file load of a record that lacks any subset of chat_type, the
\* four toggles and the threshold is not rejected; every absent field gets its
\* documented default and every present field keeps its stored value
C8_OlderSchema ==
    (op = "load" /\ backend = "file" /\ file.kind = "json" /\ io_fault = {}) =>
        \A c \in DOMAIN file.data :
            /\ c \in DOMAIN mappings
            /\ \A k \in OptionalKeys :
                  mappings[c][k] = IF k \in DOMAIN file.data[c]
                                   THEN file.data[c][k]
                                   ELSE DocumentedDefault[k]

\* C9: a load never raises and never modifies the file or the tables, and
\* when the source is missing, unreadable or corrupt it returns the empty set
C9_LoadFailsSoft ==
    [][op' = "load" =>
          /\ reply' = "returned"
          /\ UNCHANGED <<file, db>>
          /\ (io_fault' # {} \/ (backend = "file" /\ file.kind = "missing"))
                => mappings' = EmptyMappings
      ]_vars

\* C10: a save that fails at any step does not raise to its caller and leaves
\* the durable mapping set as it was before the save
C10_FailedSaveKeepsState ==
    [][(op' = "save" /\ save_status' # "ok") =>
          /\ save_status' = "failed_logged"
          /\ reply' = "returned"
          /\ DOMAIN Durable' = DOMAIN Durable
          /\ \A c \in DOMAIN Durable : Durable'[c] = Durable[c]
      ]_vars

-----------------------------------------------------------------------------
(* Commands that name a platform or a model: /link, /unlink and /today in  *)
(* chats whose models have nicknames.                                      *)

NamedLinkArgs(chat_id) ==
    IF chat_id = "c1"
    THEN { [platform |-> "onlyfans", account_id |-> "a1", chat_type |-> None,
            nickname |-> "Star"],
           [platform |-> "fansly", account_id |-> "a2", chat_type |-> "chatter",
            nickname |-> None],
           [platform |-> "fansly", account_id |-> "a1", chat_type |-> None,
            nickname |-> "A2"],
           [platform |-> "tiktok", account_id |-> "a1", chat_type |-> None,
            nickname |-> None],
           [platform |-> "of", account_id |-> "a2", chat_type |-> "agency",
            nickname |-> "Star"] }
    ELSE { [platform |-> "onlyfans", account_id |-> "a1", chat_type |-> "chatter",
            nickname |-> None],
           [platform |-> "tiktok", account_id |-> "a1", chat_type |-> None,
            nickname |-> None] }

\* the model names users type after /unlink and /today
NamedArgs(chat_id) ==
    IF chat_id = "c1"
    THEN {<<"zz">>, <<"Star">>, <<"A2">>, <<"onlyfans">>}
    ELSE {<<"a2">>, <<"star">>, <<"a1">>}

NamedLink ==
    \E c \in Chats : \E a \in NamedLinkArgs(c) :
        cmd_link(c, a.platform, a.account_id, a.chat_type, a.nickname, FALSE)

NamedUnlink ==
    \E c \in Chats : \E args \in NamedArgs(c) \cup {<<"all">>} : cmd_unlink(c, args, FALSE)

\* what calculate_revenue gives for one account: it raises, or returns the
\* net amount (in cents) and the new subscribers, NoCount when they are unknown
RevenueAnswers ==
    { [ok |-> FALSE, total_amount |-> 0, new_subscribers |-> NoCount],
      [ok |-> TRUE, total_amount |-> 10000, new_subscribers |-> NoCount],
      [ok |-> TRUE, total_amount |-> 2550, new_subscribers |-> 3],
      [ok |-> TRUE, total_amount |-> 4000, new_subscribers |-> 0] }

\* every account fails, or every account answers alike
SameAnswers == { [i \in 1..MaxModels |-> a] : a \in RevenueAnswers }

Today ==
    \E c \in Chats : \E args \in NamedArgs(c) \cup {<<>>} : \E fetches \in SameAnswers :
        cmd_today(c, args, fetches)

\* the settings users change in these chats
NamedConfigArgs(chat_id) ==
    IF chat_id = "c1"
    THEN { <<s, v>> : s \in {"daily", "weekly", "whale", "chatter_report"},
                      v \in {"on", "off"} }
         \cup {<<"threshold", "3">>}
    ELSE {}

NamedConfig == \E c \in Chats : \E args \in NamedConfigArgs(c) : cmd_config(c, args, FALSE)

NextNamed == NamedLink \/ NamedUnlink \/ Today

\* the bot on an empty store, users linking, unlinking and asking for today
SpecNamed == Init /\ [][NextNamed]_vars

NextConfig == NamedLink \/ NamedUnlink \/ NamedConfig

\* the bot on an empty store, users linking, unlinking and configuring
SpecConfig == Init /\ [][NextConfig]_vars

\* the settings users change before they unlink a model
UnlinkConfig ==
    \E c \in Chats : \E args \in {<<"daily", "off">>, <<"threshold", "3">>} :
        cmd_config(c, args, FALSE)

NextUnlink == NamedLink \/ NamedUnlink \/ UnlinkConfig

\* the bot on an empty store, users linking, switching the daily report off,
\* setting the threshold and unlinking
SpecUnlink == Init /\ [][NextUnlink]_vars

-----------------------------------------------------------------------------
(* /config on|off in chats that are linked already, from every combination *)
(* of c1's four toggles.                                                   *)

\* the mapping sets the store holds when the bot starts: c1 with two models
\* and any four toggles, alone or with c2 as a first /link of type chatter
\* leaves it
ToggleSets ==
    { m1 @@ m2 :
        m1 \in { [c \in {"c1"} |->
                    ChatMapping(<< ModelConfig("onlyfans", "a1", "Star"),
                                   ModelConfig("fansly", "a2", None) >>,
                                "agency", d, w, wh, ch, 3)]
                 : d \in BOOLEAN, w \in BOOLEAN, wh \in BOOLEAN, ch \in BOOLEAN },
        m2 \in { EmptyMappings,
                 [c \in {"c2"} |-> FirstLinkMapping("onlyfans", "a1", "chatter", None)] } }

InitToggle ==
    /\ backend \in {"file", "db"}
    /\ \E S \in ToggleSets :
          /\ file = IF backend = "file"
                    THEN StorageManagerSave(MissingFile, S, "all") ELSE MissingFile
          /\ db = IF backend = "db" THEN SaveEach(EmptyDb, S, DOMAIN S) ELSE EmptyDb
    /\ mappings = EmptyMappings
    /\ op = "init"
    /\ reply = "none"
    /\ save_status = "none"
    /\ io_fault = {}
    /\ before = EmptyMappings
    /\ job_pass = NoPass
    /\ bot_data = EmptyBotData
    /\ now = StartTime
    /\ shown = NoView

ToggleConfig ==
    \E c \in Chats : \E s \in {"daily", "weekly", "whale", "chatter_report"} :
        \E v \in {"on", "off"} : cmd_config(c, <<s, v>>, FALSE)

NextToggle == ToggleConfig

\* the bot on a store with linked chats, users switching toggles
SpecToggle == InitToggle /\ [][NextToggle]_vars

-----------------------------------------------------------------------------
(* OnlyFansCalendar. A date is its number of days after 2025-01-01; a time  *)
(* is a number of units on the local wall clock (naive) or after            *)
(* 2025-01-01 00:00 UTC. The unit stands for the resolution of datetime,    *)
(* timedelta(microseconds=1), scaled to two units per second.               *)

Second == 2

Hour == 3600 * Second

DayLen == 24 * Hour

\* the platform day starts at 1:00 AM Berlin time
StartHour == 1

\* the last date the ranges are computed for (2025-12-31)
LastDate == 364

\* Europe/Berlin: the last Sundays of March and of October of 2025 and 2026,
\* when the wall clock goes from 02:00 to 03:00 and from 03:00 to 02:00
SpringDays == {88, 452}

FallDays == {298, 662}

\* BERLIN_TZ.utcoffset(wall) with fold=0: +2 h from 03:00 of a spring day
\* up to 03:00 of the fall day (a wall time the clock skips gets the offset
\* before the change, a wall time it shows twice the first one), else +1 h
utcoffset(wall) ==
    IF \E spring \in SpringDays : \E fall \in FallDays :
          /\ spring < fall
          /\ fall - spring < 366
          /\ wall >= spring * DayLen + 3 * Hour
          /\ wall < fall * DayLen + 3 * Hour
    THEN 2 * Hour
    ELSE Hour

\* wall.astimezone(timezone.utc) for a wall time of BERLIN_TZ
astimezone_utc(wall) == wall - utcoffset(wall)

\* mutant: the day ends 24 elapsed hours after its start
get_of_day_range_Elapsed(date) ==
    [start |-> astimezone_utc(date * DayLen + StartHour * Hour),
     end |-> astimezone_utc(date * DayLen + StartHour * Hour) + DayLen - 1]

\* OnlyFansCalendar.get_of_day_range: datetime(y, m, d, 1, 0, tzinfo=BERLIN_TZ),
\* plus timedelta(days=1) minus one unit on the wall clock, both to UTC
get_of_day_range(date) ==
    LET start_local == date * DayLen + StartHour * Hour
        end_local == start_local + DayLen - 1
    IN  [start |-> astimezone_utc(start_local), end |-> astimezone_utc(end_local)]

\* the ranges of a date and of the dates that follow it, none computed yet
InitCalendar ==
    /\ backend = "file"
    /\ file = MissingFile
    /\ db = EmptyDb
    /\ mappings = EmptyMappings
    /\ op = "init"
    /\ reply = "none"
    /\ save_status = "none"
    /\ io_fault = {}
    /\ before = EmptyMappings
    /\ job_pass = NoPass
    /\ bot_data = EmptyBotData
    /\ now = StartTime
    /\ shown \in { [kind |-> "ranges", date |-> date, ranges |-> <<>>] : date \in 0..LastDate }

\* the range of the next date is computed: first of shown.date, then of the
\* date after it
of_day_range ==
    /\ shown.kind = "ranges"
    /\ Len(shown.ranges) < 2
    /\ shown' = [shown EXCEPT
                   !.ranges = Append(@, get_of_day_range(shown.date + Len(@)))]
    /\ op' = "of_day_range"
    /\ UNCHANGED <<backend, file, db, mappings, reply, save_status, io_fault, before>>
    /\ UNCHANGED jobvars

NextCalendar == of_day_range

\* get_of_day_range applied to the dates of 2025 and to their successors
SpecCalendar == InitCalendar /\ [][NextCalendar]_vars

\* BERLIN_TZ.utcoffset(wall) with fold=1: a wall time the clock skips gets
\* the offset after the change, a wall time it shows twice the second one
utcoffset_fold(wall) ==
    IF \E spring \in SpringDays : \E fall \in FallDays :
          /\ spring < fall
          /\ fall - spring < 366
          /\ wall >= spring * DayLen + 2 * Hour
          /\ wall < fall * DayLen + 2 * Hour
    THEN 2 * Hour
    ELSE Hour

\* datetime.now(BERLIN_TZ) at a UTC instant: the wall time, and fold = 1 in
\* the second of the two hours that show the same wall time
now_berlin(instant) ==
    LET summer == \E spring \in SpringDays : \E fall \in FallDays :
                      /\ spring < fall
                      /\ fall - spring < 366
                      /\ instant >= spring * DayLen + Hour
                      /\ instant < fall * DayLen + Hour
        wall == instant + (IF summer THEN 2 * Hour ELSE Hour)
    IN  [wall |-> wall,
         fold |-> IF ~summer /\ utcoffset(wall) # Hour THEN 1 ELSE 0]

\* aware.astimezone(timezone.utc) for an aware datetime of BERLIN_TZ
aware_utc(aware) ==
    aware.wall - (IF aware.fold = 1 THEN utcoffset_fold(aware.wall) ELSE utcoffset(aware.wall))

\* aware.date() and aware.hour
date_of(aware) == aware.wall \div DayLen

hour_of(aware) == (aware.wall % DayLen) \div Hour

\* mutant: the day starts at 1:00 AM of the current date at any hour
get_current_of_day_Today(instant) ==
    [start |-> astimezone_utc(date_of(now_berlin(instant)) * DayLen + StartHour * Hour),
     end |-> aware_utc(now_berlin(instant))]

\* OnlyFansCalendar.get_current_of_day at a UTC instant
get_current_of_day(instant) ==
    LET today == date_of(now_berlin(instant))
        start_local == today * DayLen + StartHour * Hour
    IN  [start |-> astimezone_utc(IF hour_of(now_berlin(instant)) < 1
                                  THEN start_local - DayLen
                                  ELSE start_local),
         end |-> aware_utc(now_berlin(instant))]

\* OnlyFansCalendar.get_previous_of_day at a UTC instant
get_previous_of_day(instant) == get_of_day_range(date_of(now_berlin(instant)) - 1)

\* mutant: the window ends with the day before yesterday
last_7_of_days_Short(instant) ==
    [start |-> get_of_day_range(date_of(now_berlin(instant)) - 7).start,
     end |-> get_of_day_range(date_of(now_berlin(instant)) - 2).end]

\* "Calculate the last 7 complete OnlyFans days" of weekly_report_job and of
\* cmd_week at a UTC instant
last_7_of_days(instant) ==
    LET today == date_of(now_berlin(instant))
        end_day == today - 1
        start_day == end_day - 6
    IN  [start |-> get_of_day_range(start_day).start,
         end |-> get_of_day_range(end_day).end]

\* strftime("%Y-%m-%d") of a UTC datetime: its date
strftime_date(instant) == instant \div DayLen

\* ChatterPerformanceClient.get_yesterday_performance at a UTC instant, with
\* the start_date and end_date that get_chatter_performance sends:
\* 1:00:00 of yesterday and 0:59:59 (no microseconds) of the current date on
\* the wall clock, both to UTC
get_yesterday_performance(instant) ==
    LET yesterday == date_of(now_berlin(instant)) - 1
        start_local == yesterday * DayLen + StartHour * Hour
        end_local == date_of(now_berlin(instant)) * DayLen + 59 * 60 * Second + 59 * Second
    IN  [start |-> astimezone_utc(start_local),
         end |-> astimezone_utc(end_local),
         start_date |-> strftime_date(astimezone_utc(start_local)),
         end_date |-> strftime_date(astimezone_utc(end_local))]

\* the instants the clock is read at: the first and the last unit of every
\* hour of every date
Instants ==
    { date * DayLen + hour * Hour + unit :
        date \in 0..LastDate, hour \in 0..23, unit \in {0, Hour - 1} }

InitClock ==
    /\ backend = "file"
    /\ file = MissingFile
    /\ db = EmptyDb
    /\ mappings = EmptyMappings
    /\ op = "init"
    /\ reply = "none"
    /\ save_status = "none"
    /\ io_fault = {}
    /\ before = EmptyMappings
    /\ job_pass = NoPass
    /\ bot_data = EmptyBotData
    /\ now = StartTime
    /\ shown \in { [kind |-> "clock", instant |-> instant] : instant \in Instants }

\* a handler computes the range named which at the instant of the clock
range_at(which, range) ==
    /\ shown.kind = "clock"
    /\ shown' = [kind |-> which, instant |-> shown.instant, range |-> range]
    /\ op' = which
    /\ UNCHANGED <<backend, file, db, mappings, reply, save_status, io_fault, before>>
    /\ UNCHANGED jobvars

CurrentOfDay == range_at("current_of_day", get_current_of_day(shown.instant))

PreviousOfDay == range_at("previous_of_day", get_previous_of_day(shown.instant))

Last7OfDays == range_at("last_7_of_days", last_7_of_days(shown.instant))

YesterdayPerformance ==
    range_at("yesterday_performance", get_yesterday_performance(shown.instant))

NextClock == CurrentOfDay \/ PreviousOfDay \/ Last7OfDays \/ YesterdayPerformance

\* the ranges the handlers and jobs compute from the clock during 2025
SpecClock == InitClock /\ [][NextClock]_vars

-----------------------------------------------------------------------------
(* OnlyMonsterClient.calculate_revenue for one account. Amounts are in     *)
(* cents and multiples of 5, so that the 80 % net amount is exact.         *)

\* the "amount" of a transaction: a number, None or absent, or a value that
\* float() rejects
Amount(value) == [kind |-> "number", value |-> value]

NoAmount == [kind |-> "none", value |-> 0]

BadAmount == [kind |-> "invalid", value |-> 0]

\* what the transactions endpoint answers: an error, or the amounts of "items"
TransactionAnswers ==
    { [ok |-> FALSE, items |-> <<>>],
      [ok |-> TRUE, items |-> <<>>],
      [ok |-> TRUE, items |-> << Amount(10000) >>],
      [ok |-> TRUE, items |-> << Amount(10000), Amount(2500) >>],
      [ok |-> TRUE, items |-> << Amount(5000), NoAmount, Amount(250) >>],
      [ok |-> TRUE, items |-> << BadAmount, Amount(1500) >>],
      [ok |-> TRUE, items |-> << NoAmount >>],
      [ok |-> TRUE, items |-> << Amount(0), Amount(995) >>],
      [ok |-> TRUE, items |-> << Amount(2500), Amount(10000) >>] }

\* a JSON object with some of the subscriber counts
SubscriberData(keys, new_subscribers, total_subscribers) ==
    [k \in keys |-> IF k = "new_subscribers" THEN new_subscribers ELSE total_subscribers]

\* what the subscribers endpoint answers: a request error (connection,
\* timeout, HTTP status), a body that makes the client raise another
\* exception, or a JSON object
SubscriberAnswers ==
    { [outcome |-> "request_error", data |-> SubscriberData({}, 0, 0)],
      [outcome |-> "exception", data |-> SubscriberData({}, 0, 0)],
      [outcome |-> "ok", data |-> SubscriberData({}, 0, 0)],
      [outcome |-> "ok", data |-> SubscriberData({"new_subscribers", "total_subscribers"}, 3, 40)],
      [outcome |-> "ok", data |-> SubscriberData({"new_subscribers", "total_subscribers"}, 0, 12)],
      [outcome |-> "ok", data |-> SubscriberData({"total_subscribers"}, 0, 7)],
      [outcome |-> "ok", data |-> SubscriberData({"new_subscribers"}, 5, 0)] }

\* OnlyMonsterClient.get_subscribers: a RequestException is logged and {} is
\* returned; any other exception leaves the method
get_subscribers(answer) ==
    CASE answer.outcome = "request_error" -> [raised |-> FALSE, data |-> SubscriberData({}, 0, 0)]
      [] answer.outcome = "exception" -> [raised |-> TRUE, data |-> SubscriberData({}, 0, 0)]
      [] answer.outcome = "ok" -> [raised |-> FALSE, data |-> answer.data]

RECURSIVE TotalAmount(_)
\* the loop "for transaction in items": total_amount += float(amount) for
\* the amounts that are numbers
TotalAmount(items) ==
    IF items = <<>> THEN 0
    ELSE (IF Head(items).kind = "number" THEN Head(items).value ELSE 0)
         + TotalAmount(Tail(items))

\* mutant: an exception of the subscriber fetch fails the computation
calculate_revenue_SubscribersFatal(transactions, subscribers) ==
    [ok |-> transactions.ok /\ ~get_subscribers(subscribers).raised,
     total_amount |-> (TotalAmount(transactions.items) * 80) \div 100,
     transaction_count |-> Len(transactions.items),
     new_subscribers |-> Get(get_subscribers(subscribers).data, "new_subscribers", NoCount),
     total_subscribers |-> Get(get_subscribers(subscribers).data, "total_subscribers", NoCount)]

\* OnlyMonsterClient.calculate_revenue: it raises when get_transactions
\* raises; the subscriber data is fetched in a try block of its own
calculate_revenue(transactions, subscribers) ==
    IF ~transactions.ok
    THEN [ok |-> FALSE, total_amount |-> 0, transaction_count |-> 0,
          new_subscribers |-> NoCount, total_subscribers |-> NoCount]
    ELSE LET sub == get_subscribers(subscribers)
             sub_data == IF sub.raised THEN SubscriberData({}, 0, 0) ELSE sub.data
         IN  [ok |-> TRUE,
              total_amount |-> (TotalAmount(transactions.items) * 80) \div 100,
              transaction_count |-> Len(transactions.items),
              new_subscribers |-> Get(sub_data, "new_subscribers", NoCount),
              total_subscribers |-> Get(sub_data, "total_subscribers", NoCount)]

\* the two requests of one computation are answered
InitRevenue ==
    /\ backend = "file"
    /\ file = MissingFile
    /\ db = EmptyDb
    /\ mappings = EmptyMappings
    /\ op = "init"
    /\ reply = "none"
    /\ save_status = "none"
    /\ io_fault = {}
    /\ before = EmptyMappings
    /\ job_pass = NoPass
    /\ bot_data = EmptyBotData
    /\ now = StartTime
    /\ shown \in { [kind |-> "answers", transactions |-> t, subscribers |-> u] :
                      t \in TransactionAnswers, u \in SubscriberAnswers }

\* calculate_revenue meets the answers
revenue_computed ==
    /\ shown.kind = "answers"
    /\ shown' = [kind |-> "revenue", transactions |-> shown.transactions,
                 subscribers |-> shown.subscribers,
                 stats |-> calculate_revenue(shown.transactions, shown.subscribers)]
    /\ op' = "calculate_revenue"
    /\ UNCHANGED <<backend, file, db, mappings, reply, save_status, io_fault, before>>
    /\ UNCHANGED jobvars

NextRevenue == revenue_computed

\* the revenue computation of one account over the answers of the API
SpecRevenue == InitRevenue /\ [][NextRevenue]_vars

-----------------------------------------------------------------------------
(* /today in chats with several accounts, the analytics API answering or   *)
(* failing account by account.                                             *)

\* the body of cmd_yesterday and of cmd_week: the try block reads
\* mapping.platform and mapping.platform_account_id (AttributeError when the
\* mapping has no such attribute), fetches the revenue of that account over
\* the range and replies with format_revenue; any exception gives the error
\* reply
period_revenue(operation, range, chat_id, fetch) ==
    \E ld \in LoadOutcomes(FALSE) :
        IF ld.raised THEN Answer(operation, ld, "raised")
        ELSE IF chat_id \notin DOMAIN ld.result
        THEN Answer(operation, ld, "not_linked")
        ELSE IF \/ ~HasAttr(ld.result[chat_id], "platform")
                \/ ~HasAttr(ld.result[chat_id], "platform_account_id")
                \/ ~fetch.ok
        THEN AnswerView(operation, ld, "fetch_failed", NoView)
        ELSE AnswerView(operation, ld, "shown",
                        [range |-> range]
                          @@ format_revenue(fetch, ld.result[chat_id].platform_account_id,
                                            ld.result[chat_id].platform))

\* /yesterday: the revenue over get_previous_of_day()
cmd_yesterday(chat_id, fetch) == period_revenue("yesterday", "previous_of_day", chat_id, fetch)

\* /week: the revenue over the last 7 platform days
cmd_week(chat_id, fetch) == period_revenue("week", "last_7_of_days", chat_id, fetch)

\* the mapping sets the store holds: c1 with two models, alone or with c2
\* that has three
TodaySets ==
    { m1 @@ m2 :
        m1 \in { [c \in {"c1"} |->
                    ChatMapping(<< ModelConfig("onlyfans", "a1", "Star"),
                                   ModelConfig("fansly", "a2", None) >>,
                                "agency", TRUE, TRUE, FALSE, FALSE, DefaultThreshold)] },
        m2 \in { EmptyMappings,
                 [c \in {"c2"} |->
                    ChatMapping(<< ModelConfig("onlyfans", "a2", None),
                                   ModelConfig("onlyfans", "a1", "Star"),
                                   ModelConfig("fansly", "a1", None) >>,
                                "agency", TRUE, TRUE, FALSE, FALSE, DefaultThreshold)] } }

InitToday ==
    /\ backend \in {"file", "db"}
    /\ \E S \in TodaySets :
          /\ file = IF backend = "file"
                    THEN StorageManagerSave(MissingFile, S, "all") ELSE MissingFile
          /\ db = IF backend = "db" THEN SaveEach(EmptyDb, S, DOMAIN S) ELSE EmptyDb
    /\ mappings = EmptyMappings
    /\ op = "init"
    /\ reply = "none"
    /\ save_status = "none"
    /\ io_fault = {}
    /\ before = EmptyMappings
    /\ job_pass = NoPass
    /\ bot_data = EmptyBotData
    /\ now = StartTime
    /\ shown = NoView

\* the answers of calculate_revenue for the accounts of chat c, one by one
FetchesFor(c) ==
    [1..(IF c \in DOMAIN Durable THEN Len(Durable[c].models) ELSE 0) -> RevenueAnswers]

TodayAll == \E c \in Chats : \E fetches \in FetchesFor(c) : cmd_today(c, <<>>, fetches)

TodayOne ==
    \E c \in Chats : \E args \in {<<"star">>, <<"a2">>} : \E fetches \in FetchesFor(c) :
        cmd_today(c, args, fetches)

Yesterday == \E c \in Chats : \E fetch \in RevenueAnswers : cmd_yesterday(c, fetch)

Week == \E c \in Chats : \E fetch \in RevenueAnswers : cmd_week(c, fetch)

NextToday == TodayAll \/ TodayOne \/ Yesterday \/ Week

\* the bot on a store with linked chats, users asking for the revenue of
\* today, of yesterday and of the week
SpecToday == InitToday /\ [][NextToday]_vars

-----------------------------------------------------------------------------
(* The whale check of one chat (the try block of whale_alert_job, lines    *)
(* 1475-1528) applied poll after poll to context.bot_data. No ChatMapping   *)
(* has the attributes platform and platform_account_id that the block      *)
(* reads, so besides a ChatMapping the block is given an object that has   *)
(* them: only with such an object does it get past building the URL.       *)

\* job_queue.run_repeating(whale_alert_job, interval=300, ...)
PollInterval == 300

\* the number of poll intervals the checked executions last
MaxPolls == 8

\* the last clock value of the checked executions
MaxTime == StartTime + MaxPolls * PollInterval

\* the objects the whale check is applied to
WhaleMappings ==
    { ChatMapping(<< ModelConfig("onlyfans", "a1", None) >>,
                  "agency", TRUE, TRUE, TRUE, TRUE, DefaultThreshold),
      ChatMapping(<< ModelConfig("onlyfans", "a1", None) >>,
                  "agency", TRUE, TRUE, TRUE, TRUE, DefaultThreshold)
        @@ [platform |-> "onlyfans", platform_account_id |-> "a1"] }

\* the fans the fans/online endpoint reports at one poll
FansOnline ==
    { <<>>,
      << [id |-> "f1", buying_power |-> 3] >>,
      << [id |-> "f1", buying_power |-> 4] >>,
      << [id |-> "f1", buying_power |-> 5], [id |-> "f2", buying_power |-> 4] >> }

InitDedup ==
    /\ backend = "file"
    /\ file = MissingFile
    /\ db = EmptyDb
    /\ mappings = EmptyMappings
    /\ op = "init"
    /\ reply = "none"
    /\ save_status = "none"
    /\ io_fault = {}
    /\ before = EmptyMappings
    /\ job_pass = NoPass
    /\ bot_data = EmptyBotData
    /\ now = StartTime
    /\ shown = NoView

\* time passes until the next poll, up to the clock value limit
tick_until(limit) ==
    /\ now + PollInterval <= limit
    /\ now' = now + PollInterval
    /\ op' = "tick"
    /\ UNCHANGED <<backend, file, db, mappings, reply, save_status, io_fault, before,
                   job_pass, bot_data, shown>>

tick == tick_until(MaxTime)

\* one poll of whale_alert_job for chat_id
whale_poll(chat_id, mapping, fans, send_ok) ==
    LET r == whale_check(chat_id, mapping, [status_code |-> 200, fans |-> fans],
                         bot_data, now, [i \in 1..Len(fans) |-> send_ok])
    IN  /\ bot_data' = r.bot_data
        /\ job_pass' = [job |-> "whale", snapshot |-> With(EmptyMappings, chat_id, mapping),
                        todo |-> <<>>, done |-> <<chat_id>>, sent |-> r.sent,
                        failed |-> IF r.raised THEN {chat_id} ELSE {}]
        /\ op' = "whale_poll"
        /\ UNCHANGED <<backend, file, db, mappings, reply, save_status, io_fault,
                       before, now, shown>>

Tick == tick

WhalePoll ==
    \E mapping \in WhaleMappings, fans \in FansOnline, send_ok \in BOOLEAN :
        whale_poll("c1", mapping, fans, send_ok)

NextDedup == Tick \/ WhalePoll

SpecDedup == InitDedup /\ [][NextDedup]_vars

\* the number of poll intervals of the executions with two chats
MaxKeyPolls == 2

\* the fans the endpoint reports for a chat at one poll, with and without
\* the field "id"
KeyFans ==
    { << [id |-> "f1", buying_power |-> 4] >>,
      << [id |-> "f1", buying_power |-> 5], [id |-> "f2", buying_power |-> 4] >>,
      << [username |-> "u1", buying_power |-> 4] >>,
      << [username |-> "u1", buying_power |-> 4], [username |-> "u2", buying_power |-> 5] >> }

KeyTick == tick_until(StartTime + MaxKeyPolls * PollInterval)

KeyPoll ==
    \E chat_id \in Chats, mapping \in WhaleMappings, fans \in KeyFans, send_ok \in BOOLEAN :
        whale_poll(chat_id, mapping, fans, send_ok)

NextKeys == KeyTick \/ KeyPoll

\* the whale check of two chats over the same fans
SpecKeys == InitDedup /\ [][NextKeys]_vars

-----------------------------------------------------------------------------
(* Properties of the commands' validation *)

\* the mappings of the chats other than c are the same in ms1 and ms2
OthersSame(ms1, ms2, c) ==
    /\ DOMAIN ms1 \ {c} = DOMAIN ms2 \ {c}
    /\ \A o \in DOMAIN ms1 \ {c} : ms1[o] = ms2[o]

\* the lower-cased names of one model: its account id and its nickname
NamesOf(model) ==
    {model.platform_account_id}
    \cup (CASE model.nickname = "Star" -> {"star"}
            [] model.nickname = "A2" -> {"a2"}
            [] OTHER -> {})

\* the names by which a mapping's models can be referred to, lower-cased
KnownNames(mapping) == UNION { NamesOf(mapping.models[i]) : i \in DOMAIN mapping.models }

\* the lower-cased model names that users type
TypedNames == {"zz", "star", "a1", "a2", "onlyfans"}

\* what users type for a lower-cased name
Typed(name) ==
    CASE name = "star" -> "Star"
      [] name = "a2" -> "A2"
      [] OTHER -> name

\* C20: a /link with a platform other than onlyfans and fansly, and an
\* /unlink or /today naming a model that is no account id and no nickname of
\* the chat, are answered with the rejection and leave file and tables as
\* they were
C20_Rejected ==
    [][\A c \in Chats :
        /\ \A platform \in {"tiktok", "of"} : \A a \in {"a1", "a2"} :
           \A ty \in {None, "agency", "chatter"} : \A n \in {None, "Star"} :
              cmd_link(c, platform, a, ty, n, FALSE)
              => /\ reply' = "unsupported_platform"
                 /\ UNCHANGED <<file, db>>
        /\ c \in DOMAIN Durable
           => \A name \in TypedNames \ KnownNames(Durable[c]) : \A t \in {name, Typed(name)} :
                 /\ cmd_unlink(c, <<t>>, FALSE)
                    => /\ reply' = "model_not_found"
                       /\ UNCHANGED <<file, db>>
                 /\ \A fetches \in SameAnswers :
                       cmd_today(c, <<t>>, fetches)
                       => /\ reply' = "model_not_found"
                          /\ UNCHANGED <<file, db>>
      ]_vars

\* C20 witness: c1 holds the models Star (a1) and a2, and /today with a name
\* that is neither an account id nor a nickname of c1 was rejected
C20_Witness ==
    /\ op = "today"
    /\ reply = "model_not_found"
    /\ "c1" \in DOMAIN Durable
    /\ KnownNames(Durable["c1"]) = {"a1", "a2", "star"}
    /\ mappings = Durable

-----------------------------------------------------------------------------
(* Properties of the mapping's fields under /link and /config *)

\* the link commands users issue in chat c, as (platform, account, type, nickname)
LinkCommands(c) ==
    IF c = "c1"
    THEN { <<"onlyfans", "a1", None, "Star">>, <<"fansly", "a2", "chatter", None>>,
           <<"fansly", "a1", None, "A2">> }
    ELSE { <<"onlyfans", "a1", "chatter", None>> }

\* C21: a /link that adds a further account to a chat that has a mapping
\* appends one model and leaves the chat's chat_type, its four toggles and
\* its threshold as they were
C21_AddKeepsSettings ==
    [][\A c \in DOMAIN Durable : \A a \in LinkCommands(c) :
          (cmd_link(c, a[1], a[2], a[3], a[4], FALSE) /\ reply' = "added")
          => /\ c \in DOMAIN Durable'
             /\ Durable'[c].models
                  = Append(Durable[c].models,
                           [platform |-> a[1], platform_account_id |-> a[2],
                            nickname |-> a[4]])
             /\ \A f \in DOMAIN Durable[c] \ {"models"} : Durable'[c][f] = Durable[c][f]
             /\ OthersSame(Durable, Durable', c)]_vars

\* C21 witness: c1 was linked as agency, changed its toggles and threshold,
\* and then got its second model by a /link of type chatter; the changed
\* settings are still there
C21_Witness ==
    /\ op = "link"
    /\ reply = "added"
    /\ "c1" \in DOMAIN Durable
    /\ Len(Durable["c1"].models) = 2
    /\ Durable["c1"].models[2].platform_account_id = "a2"
    /\ Durable["c1"].chat_type = "agency"
    /\ ~Durable["c1"].enable_daily_report
    /\ Durable["c1"].enable_whale_alerts
    /\ Durable["c1"].whale_alert_threshold = 3

\* C22: the first successful /link of a chat creates its mapping with the
\* one model and, for type agency or no type, daily_report and weekly_report
\* true and whale_alerts false; for type chatter, daily_report and
\* weekly_report false and whale_alerts true; in both cases chatter_report
\* false and threshold 4
C22_FirstLink ==
    [][\A c \in Chats \ DOMAIN Durable : \A a \in LinkCommands(c) :
          (cmd_link(c, a[1], a[2], a[3], a[4], FALSE) /\ reply' = "linked")
          => /\ c \in DOMAIN Durable'
             /\ Durable'[c] =
                  [models |-> << [platform |-> a[1], platform_account_id |-> a[2],
                                  nickname |-> a[4]] >>,
                   chat_type |-> IF a[3] = "chatter" THEN "chatter" ELSE "agency",
                   enable_daily_report |-> (a[3] # "chatter"),
                   enable_weekly_report |-> (a[3] # "chatter"),
                   enable_whale_alerts |-> (a[3] = "chatter"),
                   enable_chatter_report |-> FALSE,
                   whale_alert_threshold |-> 4]]_vars

\* C22 witness: both kinds of first link have happened: c1 was created
\* without a type and c2, just now, with type chatter
C22_Witness ==
    /\ op = "link"
    /\ reply = "linked"
    /\ DOMAIN Durable = {"c1", "c2"}
    /\ Durable["c1"].chat_type = "agency"
    /\ Len(Durable["c1"].models) = 1
    /\ Durable["c1"].models[1].nickname = "Star"
    /\ Durable["c2"].chat_type = "chatter"
    /\ Durable["c2"].enable_whale_alerts
    /\ mappings = Durable

\* the toggle each /config setting names
NamedToggle ==
    [daily |-> "enable_daily_report", weekly |-> "enable_weekly_report",
     whale |-> "enable_whale_alerts", chatter_report |-> "enable_chatter_report"]

\* C23: /config daily|weekly|whale|chatter_report on|off sets the named
\* toggle of the issuing chat and changes nothing else: not the chat's other
\* three toggles, threshold, chat_type and models, and no other chat
C23_OneToggle ==
    [][\A c \in DOMAIN Durable : \A s \in DOMAIN NamedToggle : \A v \in {"on", "off"} :
          cmd_config(c, <<s, v>>, FALSE)
          => /\ c \in DOMAIN Durable'
             /\ Durable'[c][NamedToggle[s]] = (v = "on")
             /\ \A f \in DOMAIN Durable[c] \ {NamedToggle[s]} :
                   Durable'[c][f] = Durable[c][f]
             /\ OthersSame(Durable, Durable', c)]_vars

\* C23 witness: c1 (two models, threshold 3) and c2 are linked, c2 has
\* switched its chatter report on, and c1 has just changed a toggle and now
\* has weekly and daily off and whale alerts and chatter report on
C23_Witness ==
    /\ op = "config"
    /\ reply = "toggled"
    /\ DOMAIN Durable = {"c1", "c2"}
    /\ Len(Durable["c1"].models) = 2
    /\ Durable["c1"].chat_type = "agency"
    /\ Durable["c1"].whale_alert_threshold = 3
    /\ ~Durable["c1"].enable_weekly_report
    /\ ~Durable["c1"].enable_daily_report
    /\ Durable["c1"].enable_whale_alerts
    /\ Durable["c1"].enable_chatter_report
    /\ Durable["c2"].enable_chatter_report
    /\ mappings = Durable

\* C24: within one chat no nickname equals, case-insensitively, another
\* model's nickname or account id, so a name identifies at most one model
C24_UniqueNames ==
    \A c \in DOMAIN Durable :
        \A i, j \in DOMAIN Durable[c].models :
            i # j => NamesOf(Durable[c].models[i]) \cap NamesOf(Durable[c].models[j]) = {}

-----------------------------------------------------------------------------
(* Properties of the /today view *)

RECURSIVE Total(_)
\* the sum of a sequence of numbers
Total(numbers) == IF numbers = <<>> THEN 0 ELSE Head(numbers) + Total(Tail(numbers))

\* the net revenues and the new-subscriber counts (unknown as 0) of answers
Revenues(fetches) == [i \in DOMAIN fetches |-> fetches[i].total_amount]

Subscribers(fetches) ==
    [i \in DOMAIN fetches |->
        IF fetches[i].new_subscribers < 0 THEN 0 ELSE fetches[i].new_subscribers]

\* the answers in which every account's fetch succeeds
Answered(c) == { f \in FetchesFor(c) : \A i \in DOMAIN f : f[i].ok }

\* the name /today gives to the i-th model of chat c
ShownName(c, i) ==
    IF Durable[c].models[i].nickname = "Star" THEN "Star"
    ELSE Durable[c].models[i].platform_account_id

\* the view lists the accounts of c in link order, each once, with the net
\* revenue of its own answer
ListsEach(view, c, fetches) ==
    /\ DOMAIN view.breakdown = DOMAIN Durable[c].models
    /\ \A i \in DOMAIN view.breakdown :
          /\ view.breakdown[i].model = ShownName(c, i)
          /\ view.breakdown[i].revenue = fetches[i].total_amount

C26_PartialView ==
    [][\A c \in DOMAIN Durable : \A fetches \in FetchesFor(c) :
          (/\ Len(Durable[c].models) > 1
           /\ \E i \in DOMAIN fetches : ~fetches[i].ok
           /\ \E i \in DOMAIN fetches : fetches[i].ok
           /\ cmd_today(c, <<>>, fetches))
          => /\ shown'.kind \in {"single", "combined"}
             /\ reply' = "shown"]_vars

\* C34: in a chat with at least one linked model, the analytics API
\* answering, /yesterday replies with a revenue report over the previous
\* platform day and /week with one over the last 7 platform days, not with
\* an error message
C34_PeriodReports ==
    [][\A c \in DOMAIN Durable : \A fetch \in RevenueAnswers :
          (Durable[c].models # <<>> /\ fetch.ok)
          => /\ cmd_yesterday(c, fetch)
                  => /\ reply' = "shown"
                     /\ shown'.kind = "single"
                     /\ shown'.range = "previous_of_day"
                     /\ shown'.revenue = fetch.total_amount
             /\ cmd_week(c, fetch)
                  => /\ reply' = "shown"
                     /\ shown'.kind = "single"
                     /\ shown'.range = "last_7_of_days"
                     /\ shown'.revenue = fetch.total_amount]_vars

-----------------------------------------------------------------------------
(* Properties of the scheduled jobs and of their interleaving with commands *)

\* C11: in every interleaving of commands of two chats and of job passes, a
\* command applies its change to the durable state as the previous step left
\* it: the change is stored, the mapping of every other chat is kept (an
\* earlier command's change is not lost), and no job step writes the store
C11_NoLostUpdate ==
    [][/\ op' \in {"job_start", "job_step"} => UNCHANGED <<file, db>>
       /\ \A v \in {"on", "off"} :
            (/\ op' = "config"
             /\ "c1" \in DOMAIN Durable
             /\ cmd_config("c1", <<"chatter_report", v>>, FALSE))
            => /\ Durable' = [Durable EXCEPT !["c1"].enable_chatter_report = (v = "on")]
               /\ OthersSame(Durable, Durable', "c1")
       /\ (op' = "unlink" /\ cmd_unlink("c2", <<"all">>, FALSE))
            => /\ "c2" \notin DOMAIN Durable'
               /\ OthersSame(Durable, Durable', "c2")
       /\ (op' = "link" /\ cmd_link("c2", "onlyfans", "a1", "chatter", None, FALSE))
            => /\ PairLinked(Durable', "c2", "onlyfans", "a1")
               /\ OthersSame(Durable, Durable', "c2")
      ]_vars

\* C11 witness: while a pass that loaded c1 (chatter_report on) and c2 has
\* processed one chat, c1 has switched chatter_report off and c2 has been
\* unlinked and linked again; the durable state holds both changes
C11_Witness ==
    /\ op = "link"
    /\ reply = "linked"
    /\ job_pass.todo # <<>>
    /\ Len(job_pass.done) = 1
    /\ DOMAIN job_pass.snapshot = {"c1", "c2"}
    /\ job_pass.snapshot["c1"].enable_chatter_report
    /\ job_pass.snapshot["c2"].whale_alert_threshold = 2
    /\ DOMAIN Durable = {"c1", "c2"}
    /\ ~Durable["c1"].enable_chatter_report
    /\ Durable["c2"].whale_alert_threshold = DefaultThreshold

\* the polls in which fan f1 of chat c1 qualifies and the send succeeds
F1Qualifies ==
    \E mapping \in WhaleMappings :
        \E fans \in { f \in FansOnline : f # <<>> /\ f[1].buying_power >= DefaultThreshold } :
            whale_poll("c1", mapping, fans, TRUE)

\* a notification about fan f1 is sent in the step
F1Notified == \E i \in DOMAIN job_pass'.sent : job_pass'.sent[i].fan = "f1"

NewSent == SubSeq(job_pass'.sent, Len(job_pass.sent) + 1, Len(job_pass'.sent))

\* the chat the running pass processes next, and its mapping in the snapshot
NextChat == Head(job_pass.todo)

NextMapping == job_pass.snapshot[NextChat]

\* every request of the step is answered and every send succeeds; the
\* fans/online endpoint reports fan f1 with buying power 4
AllAnswered ==
    [fetch_ok |-> TRUE, send_ok |-> TRUE, responses |-> <<>>,
     whale_response |-> [status_code |-> 200,
                         fans |-> << [id |-> "f1", buying_power |-> 4] >>]]

\* a step of a pass of the given job on a chat with a numeric id in which
\* every request is answered and every send succeeds
AnsweredStep(job) ==
    /\ job_pass.job = job
    /\ job_pass.todo # <<>>
    /\ NextChat \in {"c1", "c2"}
    /\ job_step_with(AllAnswered)

\* C14: in an alert-poll pass, a chat with whale alerts on whose account
\* reports an online fan f1 with buying_power 4 >= the chat's threshold and
\* an unseen key gets one notification about f1; a chat whose threshold is
\* above 4 or whose whale alerts are off gets none
C14_WhaleAlerts ==
    [][AnsweredStep("whale")
       => IF /\ NextMapping.enable_whale_alerts
             /\ 4 >= NextMapping.whale_alert_threshold
             /\ ("whale_" \o NextChat \o "_f1") \notin DOMAIN bot_data
          THEN /\ NewSent # <<>>
               /\ \A i \in DOMAIN NewSent :
                     NewSent[i].chat_id = NextChat /\ NewSent[i].fan = "f1"
          ELSE NewSent = <<>>]_vars

\* C15: in a daily-report pass, a chat with daily_report on whose fetch and
\* send succeed gets exactly one revenue report over the previous platform
\* day, and a chat with daily_report off gets none
C15_DailyReport ==
    [][AnsweredStep("daily")
       => IF NextMapping.enable_daily_report
          THEN /\ Len(NewSent) = 1
               /\ NewSent[1].chat_id = NextChat
               /\ NewSent[1].kind = "daily"
               /\ NewSent[1].range = "previous_of_day"
          ELSE NewSent = <<>>]_vars

\* C16: in a weekly-report pass, a chat with weekly_report on whose fetch and
\* send succeed gets exactly one revenue report over the seven platform days
\* that end with yesterday, and a chat with weekly_report off gets none
C16_WeeklyReport ==
    [][AnsweredStep("weekly")
       => IF NextMapping.enable_weekly_report
          THEN /\ Len(NewSent) = 1
               /\ NewSent[1].chat_id = NextChat
               /\ NewSent[1].kind = "weekly"
               /\ NewSent[1].range = "last_7_of_days"
          ELSE NewSent = <<>>]_vars

\* the answers a chatter pass can get for the accounts of its next chat
AccountAnswers == [1..Len(NextMapping.models) -> ChatterResponses]

\* the (account, chatter) entries of the answers rs that were fetched and have
\* at least 50 messages
Reportable(rs) ==
    { e \in (DOMAIN rs) \X (1..2) :
        /\ rs[e[1]].ok
        /\ e[2] \in DOMAIN rs[e[1]].chatters
        /\ rs[e[1]].chatters[e[2]].total_messages >= 50 }

\* the reportable entries of the chatter called name
EntriesOf(rs, name) ==
    { e \in Reportable(rs) : rs[e[1]].chatters[e[2]].chatter_name = name }

RECURSIVE TotalOver(_, _, _)
\* the sum of a field over a set of entries
TotalOver(rs, entries, field) ==
    IF entries = {} THEN 0
    ELSE LET e == CHOOSE x \in entries : TRUE
         IN  rs[e[1]].chatters[e[2]][field] + TotalOver(rs, entries \ {e}, field)

\* report is one chatter report for the next chat that combines the
\* reportable entries of every fetched account
CombinedReport(report, rs) ==
    /\ report.chat_id = NextChat
    /\ report.kind = "chatter"
    /\ { report.chatters[i].chatter_name : i \in DOMAIN report.chatters }
         = { rs[e[1]].chatters[e[2]].chatter_name : e \in Reportable(rs) }
    /\ \A i, j \in DOMAIN report.chatters :
          i # j => report.chatters[i].chatter_name # report.chatters[j].chatter_name
    /\ \A i \in DOMAIN report.chatters :
          LET entries == EntriesOf(rs, report.chatters[i].chatter_name)
          IN  /\ report.chatters[i].total_sales = TotalOver(rs, entries, "total_sales")
              /\ report.chatters[i].total_messages = TotalOver(rs, entries, "total_messages")

\* a chatter pass processes its next chat with the answers rs
ChatterStep(rs, send_ok) ==
    job_step_with([fetch_ok |-> TRUE, send_ok |-> send_ok, responses |-> rs,
                   whale_response |-> [status_code |-> 200, fans |-> <<>>]])

\* C17 as stated: in a chatter-report pass every chat with chatter_report on
\* for which some account returns a reportable chatter receives exactly one
\* report combining the accounts whose fetch succeeded, whatever the send does
C17_ChatterReport ==
    [][(job_pass.job = "chatter" /\ job_pass.todo # <<>>)
       => \A send_ok \in BOOLEAN : \A rs \in AccountAnswers :
          ChatterStep(rs, send_ok)
          => IF NextMapping.enable_chatter_report /\ Reportable(rs) # {}
             THEN Len(NewSent) = 1 /\ CombinedReport(NewSent[1], rs)
             ELSE NewSent = <<>>]_vars

\* C17 amended: the same for the chats whose id is a number and whose send
\* succeeds; a chat whose send fails receives nothing
C17_ChatterReportSent ==
    [][(job_pass.job = "chatter" /\ job_pass.todo # <<>>)
       => \A send_ok \in BOOLEAN : \A rs \in AccountAnswers :
          ChatterStep(rs, send_ok)
          => IF /\ NextMapping.enable_chatter_report
                /\ Reportable(rs) # {}
                /\ send_ok
                /\ NextChat \in {"c1", "c2"}
             THEN Len(NewSent) = 1 /\ CombinedReport(NewSent[1], rs)
             ELSE NewSent = <<>>]_vars

\* C17 witness: c1 has two accounts; the fetch of the first failed and the
\* report sent to c1 holds the chatter of the second account alone
C17_Witness ==
    /\ job_pass.job = "chatter"
    /\ "c1" \in DOMAIN job_pass.snapshot
    /\ Len(job_pass.snapshot["c1"].models) = 2
    /\ \E i \in DOMAIN job_pass.sent :
          /\ job_pass.sent[i].chat_id = "c1"
          /\ job_pass.sent[i].models = <<"a2">>
          /\ Len(job_pass.sent[i].chatters) = 1
          /\ job_pass.sent[i].chatters[1].chatter_name = "Bob"

\* the elements of a sequence
Elements(seq) == { seq[i] : i \in DOMAIN seq }

\* C18: in a pass of any of the four jobs the chats processed and the chats
\* still to process are together the chats of the snapshot, each once,
\* whatever failed before: a pass ends only when every chat was processed
C18_PassCompletes ==
    job_pass.job # "none"
    => /\ Elements(job_pass.done) \cup Elements(job_pass.todo) = DOMAIN job_pass.snapshot
       /\ Len(job_pass.done) + Len(job_pass.todo) = Cardinality(DOMAIN job_pass.snapshot)
       /\ job_pass.failed \subseteq Elements(job_pass.done)

\* C18 witness: a chatter pass failed on its first chat, whose id is not a
\* number, then processed c1 and sent its report
C18_Witness ==
    /\ job_pass.job = "chatter"
    /\ job_pass.todo = <<>>
    /\ job_pass.done = <<NonNumericChat, "c1">>
    /\ NonNumericChat \in job_pass.failed
    /\ \E i \in DOMAIN job_pass.sent : job_pass.sent[i].chat_id = "c1"

\* the name a chatter report gives to an account
ReportName(model) ==
    IF model.nickname # None THEN model.nickname ELSE model.platform_account_id

\* C19: while a pass is running, no command changes its snapshot or the
\* chats it has left; each job step processes the next chat of the snapshot;
\* and whether a chatter pass sends the chat its report, and for which
\* accounts, is decided by the snapshot's toggle and models, whatever the
\* store holds by then
C19_Snapshot ==
    [][job_pass.todo # <<>>
       => /\ op' \notin {"job_start", "job_step"} => job_pass' = job_pass
          /\ op' = "job_step"
               => /\ job_pass'.snapshot = job_pass.snapshot
                  /\ job_pass'.job = job_pass.job
                  /\ job_pass'.done = Append(job_pass.done, NextChat)
                  /\ job_pass'.todo = Tail(job_pass.todo)
          /\ (job_pass.job = "chatter" /\ NextChat \in {"c1", "c2"})
               => \A rs \in AccountAnswers :
                     ChatterStep(rs, TRUE)
                     => /\ NewSent # <<>>
                           <=> (NextMapping.enable_chatter_report /\ Reportable(rs) # {})
                        /\ \A i \in DOMAIN NewSent :
                              Elements(NewSent[i].models)
                                \subseteq { ReportName(NextMapping.models[k]) :
                                              k \in DOMAIN NextMapping.models }
      ]_vars

\* C19 witness: a chatter pass loaded c1 with chatter_report on and c2,
\* processed c2, was overtaken by /config chatter_report off in c1, and then
\* sent c1 its report all the same
C19_Witness ==
    /\ op = "job_step"
    /\ job_pass.job = "chatter"
    /\ job_pass.done = <<"c2", "c1">>
    /\ job_pass.snapshot["c1"].enable_chatter_report
    /\ "c1" \in DOMAIN Durable
    /\ ~Durable["c1"].enable_chatter_report
    /\ \E i \in DOMAIN job_pass.sent : job_pass.sent[i].chat_id = "c1"

-----------------------------------------------------------------------------
(* Properties of the cross-account chatter merge *)

\* the answers a chatter pass of the merge specification can get for the
\* accounts of its next chat
MergeAnswers == [1..Len(NextMapping.models) -> MergeResponses]

\* the names in a list of chatter entries
ReportNames(chatters) == { chatters[i].chatter_name : i \in DOMAIN chatters }

\* chatters is the merge of the reportable entries of rs: one entry per
\* name, the four counters summed, the two rates averaged with equal weights
MergedEntries(chatters, rs) ==
    /\ ReportNames(chatters)
         = { rs[e[1]].chatters[e[2]].chatter_name : e \in Reportable(rs) }
    /\ Len(chatters) = Cardinality(ReportNames(chatters))
    /\ \A i \in DOMAIN chatters :
          LET entries == EntriesOf(rs, chatters[i].chatter_name)
              n == Cardinality(entries)
          IN  /\ chatters[i].total_sales = TotalOver(rs, entries, "total_sales")
              /\ chatters[i].total_messages = TotalOver(rs, entries, "total_messages")
              /\ chatters[i].template_messages = TotalOver(rs, entries, "template_messages")
              /\ chatters[i].manual_messages = TotalOver(rs, entries, "manual_messages")
              /\ chatters[i].avg_response_time_seconds * n
                   = TotalOver(rs, entries, "avg_response_time_seconds")
              /\ chatters[i].ppv_conversion_rate * n
                   = TotalOver(rs, entries, "ppv_conversion_rate")

\* C27: the report of a chat holds exactly one entry per distinct chatter
\* name; its sales, messages, template messages and manual messages are the
\* sums over the contributing per-account records and its response time and
\* conversion rate are their unweighted arithmetic means
C27_MergeSums ==
    [][(job_pass.job = "chatter" /\ job_pass.todo # <<>>)
       => \A rs \in MergeAnswers :
             (merge_step_with(rs) /\ Reportable(rs) # {})
             => /\ Len(NewSent) = 1
                /\ MergedEntries(NewSent[1].chatters, rs)]_vars

\* C27 witness: Marc sold 200 with 80 messages on one account of c1 and 50
\* with 60 messages on the other; the report holds one entry for Marc with
\* 250, 140 and the plain means 90 s and 42 %
C27_Witness ==
    /\ job_pass.job = "chatter"
    /\ \E i \in DOMAIN job_pass.sent :
          /\ job_pass.sent[i].chat_id = "c1"
          /\ job_pass.sent[i].models = <<"Star", "a2">>
          /\ \E k \in DOMAIN job_pass.sent[i].chatters :
                job_pass.sent[i].chatters[k]
                  = [chatter_name |-> "Marc", total_sales |-> 250,
                     avg_response_time_seconds |-> 90, ppv_conversion_rate |-> 4200,
                     total_messages |-> 140, template_messages |-> 32,
                     manual_messages |-> 108]

\* entry e comes before entry f when the per-account results (each by
\* descending sales, equal sales in the order of the answer) are put one
\* after the other in link order
Earlier(rs, e, f) ==
    \/ e[1] < f[1]
    \/ /\ e[1] = f[1]
       /\ \/ rs[e[1]].chatters[e[2]].total_sales > rs[f[1]].chatters[f[2]].total_sales
          \/ /\ rs[e[1]].chatters[e[2]].total_sales = rs[f[1]].chatters[f[2]].total_sales
             /\ e[2] < f[2]

\* the first entry that carries name
FirstEntry(rs, name) ==
    CHOOSE e \in EntriesOf(rs, name) :
        \A f \in EntriesOf(rs, name) \ {e} : Earlier(rs, e, f)

\* C28: the merged list is in descending order of total_sales, and entries
\* with equal total_sales are in the order in which their names were first
\* met in the per-account results concatenated in link order
C28_SalesOrder ==
    [][(job_pass.job = "chatter" /\ job_pass.todo # <<>>)
       => \A rs \in MergeAnswers :
             (merge_step_with(rs) /\ Reportable(rs) # {})
             => /\ Len(NewSent) = 1
                /\ \A i, j \in DOMAIN NewSent[1].chatters :
                      i < j
                      => LET x == NewSent[1].chatters[i]
                             y == NewSent[1].chatters[j]
                         IN  /\ x.total_sales >= y.total_sales
                             /\ x.total_sales = y.total_sales
                                  => Earlier(rs, FirstEntry(rs, x.chatter_name),
                                                 FirstEntry(rs, y.chatter_name))]_vars

\* C28 witness: Zoe sold 250 on the first account of c1, Marc 50 on the first
\* and 200 on the second; the report lists Zoe before Marc, both with 250
C28_Witness ==
    /\ job_pass.job = "chatter"
    /\ \E i \in DOMAIN job_pass.sent :
          /\ job_pass.sent[i].chat_id = "c1"
          /\ Len(job_pass.sent[i].chatters) = 2
          /\ job_pass.sent[i].chatters[1].chatter_name = "Zoe"
          /\ job_pass.sent[i].chatters[2].chatter_name = "Marc"
          /\ job_pass.sent[i].chatters[1].total_sales = 250
          /\ job_pass.sent[i].chatters[2].total_sales = 250
          /\ job_pass.sent[i].chatters[2].total_messages = 140

\* the (account, chatter) entries of the answered accounts of rs under name
RecordsOf(rs, name) ==
    { e \in (DOMAIN rs) \X (1..2) :
        /\ rs[e[1]].ok
        /\ e[2] \in DOMAIN rs[e[1]].chatters
        /\ rs[e[1]].chatters[e[2]].chatter_name = name }

\* among them, the records that reach the minimum of 50 messages
FullRecordsOf(rs, name) ==
    { e \in RecordsOf(rs, name) : rs[e[1]].chatters[e[2]].total_messages > 49 }

\* C29: the filter total_messages >= 50 acts on each per-account record
\* before the merge: a chatter whose every record is below 50 is in no
\* report, whatever the sum of its messages, and a record below 50 adds
\* nothing to the messages and the sales of the merged entry
C29_FilterFirst ==
    [][(job_pass.job = "chatter" /\ job_pass.todo # <<>>)
       => \A rs \in MergeAnswers :
             merge_step_with(rs)
             => \A name \in {"Ann", "Bob", "Marc", "Zoe"} :
                   IF FullRecordsOf(rs, name) = {}
                   THEN \A i \in DOMAIN NewSent :
                           name \notin ReportNames(NewSent[i].chatters)
                   ELSE /\ Len(NewSent) = 1
                        /\ \E k \in DOMAIN NewSent[1].chatters :
                              /\ NewSent[1].chatters[k].chatter_name = name
                              /\ NewSent[1].chatters[k].total_messages
                                   = TotalOver(rs, FullRecordsOf(rs, name), "total_messages")
                              /\ NewSent[1].chatters[k].total_sales
                                   = TotalOver(rs, FullRecordsOf(rs, name), "total_sales")
      ]_vars

\* C29 witness: both accounts of c1 answered; Ann has 49 messages on one and
\* 30 on the other, Marc 49, Bob 50: the report holds Bob alone
C29_Witness ==
    /\ job_pass.job = "chatter"
    /\ \E i \in DOMAIN job_pass.sent :
          /\ job_pass.sent[i].chat_id = "c1"
          /\ job_pass.sent[i].models = <<"Star", "a2">>
          /\ Len(job_pass.sent[i].chatters) = 1
          /\ job_pass.sent[i].chatters[1].chatter_name = "Bob"
          /\ job_pass.sent[i].chatters[1].total_sales = 70
          /\ job_pass.sent[i].chatters[1].avg_response_time_seconds = 48

-----------------------------------------------------------------------------
(* Properties of the platform day *)

\* the Berlin wall clock at a UTC instant: summer time from 01:00 UTC of the
\* last Sunday of March to 01:00 UTC of the last Sunday of October
LocalTime(instant) ==
    IF \/ instant >= 88 * 172800 + 7200 /\ instant < 298 * 172800 + 7200
       \/ instant >= 452 * 172800 + 7200 /\ instant < 662 * 172800 + 7200
    THEN instant + 14400
    ELSE instant + 7200

\* C30: for every date D, the days of the two clock changes included, the
\* instant after the end of the range of D is the start of the range of
\* D + 1, and the range of D starts at 01:00 local time on D
C30_DayRanges ==
    shown.kind = "ranges"
    => /\ \A i \in DOMAIN shown.ranges :
             LocalTime(shown.ranges[i].start) = (shown.date + i - 1) * 172800 + 7200
       /\ Len(shown.ranges) = 2
            => shown.ranges[1].end + 1 = shown.ranges[2].start

\* C30 witness: the ranges of 2025-03-30 and 2025-03-31 are computed; the
\* first holds 23 hours
C30_Witness ==
    /\ shown.kind = "ranges"
    /\ shown.date = 88
    /\ Len(shown.ranges) = 2
    /\ shown.ranges[1].end + 1 - shown.ranges[1].start = 23 * 7200

\* the UTC instant at which the Berlin wall clock shows 01:00 on date
StartOf(date) ==
    CHOOSE instant \in {date * 172800, date * 172800 - 7200} :
        LocalTime(instant) = date * 172800 + 7200

\* the date and the time of day the Berlin wall clock shows at a UTC instant
LocalDate(instant) == LocalTime(instant) \div 172800

LocalTimeOfDay(instant) == LocalTime(instant) % 172800

\* C31: the current platform day read before 01:00 local starts with the
\* platform day of the date before, read at or after 01:00 with the one of
\* the current date, and ends at the instant of the reading, on the dates of
\* the clock changes too
C31_CurrentDay ==
    shown.kind = "current_of_day"
    => /\ shown.range.start
            = IF LocalTimeOfDay(shown.instant) < 7200
              THEN StartOf(LocalDate(shown.instant) - 1)
              ELSE StartOf(LocalDate(shown.instant))
       /\ shown.range.end = shown.instant

\* C31 witness: in the last unit before 01:00 local on 2025-03-31, the day
\* after the spring change, the current day started at 01:00 local on 2025-03-30, one unit
\* less than 23 hours before
C31_Witness ==
    /\ shown.kind = "current_of_day"
    /\ LocalDate(shown.instant) = 89
    /\ LocalTimeOfDay(shown.instant) = 7199
    /\ shown.range.end - shown.range.start = 23 * 7200 - 1

\* C32 as stated: with D the date of yesterday, the 7-day window starts with
\* the platform day of D - 6 and ends with the one of D - 1
C32_WeekWindow ==
    shown.kind = "last_7_of_days"
    => /\ shown.range.start = StartOf(LocalDate(shown.instant) - 1 - 6)
       /\ shown.range.end + 1 = StartOf(LocalDate(shown.instant) - 1)

\* C32 amended: with D the date of yesterday, the 7-day window starts with
\* the platform day of D - 6 and ends with the one of D: seven consecutive
\* platform days
C32_WeekWindowSeven ==
    shown.kind = "last_7_of_days"
    => /\ shown.range.start = StartOf(LocalDate(shown.instant) - 1 - 6)
       /\ shown.range.end + 1 = StartOf(LocalDate(shown.instant))

\* C32 witness: read on 2025-04-02, the window holds the seven platform days
\* from 2025-03-26 to 2025-04-01, one hour short of 168 for the spring change
C32_Witness ==
    /\ shown.kind = "last_7_of_days"
    /\ LocalDate(shown.instant) = 91
    /\ shown.range.end + 1 - shown.range.start = 167 * 7200

\* C36: the range the chatter report job requests for an account is the
\* previous platform day, from 01:00 local yesterday to one unit before
\* 01:00 local today, and the dates sent to the API name the local dates of
\* that platform day (it starts yesterday and ends yesterday or today) in
\* winter and in summer
C36_ChatterRange ==
    shown.kind = "yesterday_performance"
    => /\ shown.range.start = StartOf(LocalDate(shown.instant) - 1)
       /\ shown.range.end + 1 = StartOf(LocalDate(shown.instant))
       /\ shown.range.start_date = LocalDate(shown.instant) - 1
       /\ shown.range.end_date \in {LocalDate(shown.instant) - 1, LocalDate(shown.instant)}

-----------------------------------------------------------------------------
(* Properties of the revenue computation *)

RECURSIVE Gross(_, _)
\* the sum of the numeric amounts of the items from position i on
Gross(items, i) ==
    IF i > Len(items) THEN 0
    ELSE (IF items[i].kind = "number" THEN items[i].value ELSE 0) + Gross(items, i + 1)

\* C33: when the transactions are fetched, a failed subscriber fetch (a
\* request error or any other exception) does not fail the computation: the
\* net amount and the transaction count are those of a computation whose
\* subscriber fetch succeeds, and both subscriber counts are unknown
C33_SubscriberFailure ==
    (shown.kind = "revenue" /\ shown.transactions.ok)
    => /\ shown.stats.ok
       /\ shown.stats.total_amount * 5 = Gross(shown.transactions.items, 1) * 4
       /\ shown.stats.transaction_count = Len(shown.transactions.items)
       /\ shown.subscribers.outcome # "ok"
            => /\ shown.stats.new_subscribers < 0
               /\ shown.stats.total_subscribers < 0

\* C33 witness: transactions of 100.00 and 25.00 were fetched and the
\* subscriber fetch raised; the result holds the net 100.00, two transactions
\* and no subscriber counts
C33_Witness ==
    /\ shown.kind = "revenue"
    /\ shown.subscribers.outcome = "exception"
    /\ shown.stats.ok
    /\ shown.stats.total_amount = 10000
    /\ shown.stats.transaction_count = 2
    /\ shown.stats.new_subscribers < 0

-----------------------------------------------------------------------------
(* Properties of the alert keys *)

\* the answers of the fans/online endpoint in which fan f1 comes first and
\* reaches the default threshold
F1First == { f \in FansOnline : f # <<>> /\ f[1].buying_power >= DefaultThreshold }

\* C35: while the key (c1, f1) is unseen, a poll in which f1 qualifies
\* attempts the notification; the key becomes recently alerted exactly when
\* the send succeeds, and a failed send leaves it unseen for the next poll
\* to try again, so that a sink that accepts a send gets the notification
C35_AlertAfterSend ==
    [][\A mapping \in WhaleMappings : \A fans \in F1First : \A send_ok \in BOOLEAN :
          (/\ "whale_c1_f1" \notin DOMAIN bot_data
           /\ whale_poll("c1", mapping, fans, send_ok))
          => IF send_ok
             THEN /\ F1Notified
                  /\ "whale_c1_f1" \in DOMAIN bot_data'
             ELSE /\ ~F1Notified
                  /\ "whale_c1_f1" \notin DOMAIN bot_data']_vars

\* the objects that have the attributes the whale check reads
WithAccount == { mapping \in WhaleMappings : "platform" \in DOMAIN mapping }

\* the key of the dedup entry of the i-th fan of fans in chat c
OwnKey(c, fans, i) ==
    IF "id" \in DOMAIN fans[i]
    THEN "whale_" \o c \o "_" \o fans[i].id
    ELSE "whale_" \o c \o "_"

\* the fans of a poll that reach the threshold and have no entry in bot_data
FreshWhales(c, fans) ==
    { i \in DOMAIN fans :
        /\ fans[i].buying_power >= DefaultThreshold
        /\ OwnKey(c, fans, i) \notin DOMAIN bot_data }

-----------------------------------------------------------------------------
(* Properties of the commands when the store fails *)

\* the steps of storage.save
SaveSteps == {"open", "write", "delete", "upsert"}

\* C37: a link, unlink or config command of chat c2 leaves the durable
\* mapping of every other chat as it was, also when the load at the start
\* of the command fails soft and returns the empty set (here: in every
\* command whose save steps all succeed)
C37_OtherChatsKept ==
    [][(op' \in {"link", "unlink", "config"} /\ io_fault' \cap SaveSteps = {})
       => \A other \in DOMAIN Durable \ {"c2"} :
             /\ other \in DOMAIN Durable'
             /\ Durable'[other] = Durable[other]]_vars

-----------------------------------------------------------------------------
(* Properties of /unlink with a model name *)

\* the position of the first model that goes by the lower-cased name
FirstNamed(models, name) ==
    CHOOSE i \in DOMAIN models :
        /\ name \in NamesOf(models[i])
        /\ \A j \in 1..(i - 1) : name \notin NamesOf(models[j])

\* the models without the one at position i, in their order
Dropped(models, i) == SubSeq(models, 1, i - 1) \o SubSeq(models, i + 1, Len(models))

\* chat_type, the four toggles and the threshold of a mapping
SettingsOf(mapping) ==
    <<mapping.chat_type, mapping.enable_daily_report, mapping.enable_weekly_report,
      mapping.enable_whale_alerts, mapping.enable_chatter_report,
      mapping.whale_alert_threshold>>

\* the other chats are stored as before and no chat has appeared
OthersKept(c) ==
    /\ DOMAIN Durable' \subseteq DOMAIN Durable
    /\ \A other \in DOMAIN Durable \ {c} :
          /\ other \in DOMAIN Durable'
          /\ Durable'[other] = Durable[other]

\* C38 as stated: an /unlink with a name that a model of the chat goes by
\* removes the first such model in link order and nothing else: the chat
\* keeps its other models in their order, its chat_type, its toggles and its
\* threshold, and every other chat is stored as before
C38_UnlinkOne ==
    [][\A c \in Chats :
        (op' = "unlink" /\ c \in DOMAIN Durable)
        => \A name \in TypedNames \cap KnownNames(Durable[c]) : \A t \in {name, Typed(name)} :
              cmd_unlink(c, <<t>>, FALSE)
              => /\ reply' \in {"removed", "removed_last"}
                 /\ c \in DOMAIN Durable'
                 /\ Durable'[c].models
                      = Dropped(Durable[c].models, FirstNamed(Durable[c].models, name))
                 /\ SettingsOf(Durable'[c]) = SettingsOf(Durable[c])
                 /\ OthersKept(c)
      ]_vars

\* C38, amended: the same while the chat has another model; when the named
\* model is the chat's only one, the chat's mapping is deleted with its
\* settings, and every other chat is stored as before
C38_UnlinkOneOrDelete ==
    [][\A c \in Chats :
        (op' = "unlink" /\ c \in DOMAIN Durable)
        => \A name \in TypedNames \cap KnownNames(Durable[c]) : \A t \in {name, Typed(name)} :
              cmd_unlink(c, <<t>>, FALSE)
              => /\ OthersKept(c)
                 /\ IF Len(Durable[c].models) = 1
                    THEN /\ reply' = "removed_last"
                         /\ c \notin DOMAIN Durable'
                    ELSE /\ reply' = "removed"
                         /\ c \in DOMAIN Durable'
                         /\ Durable'[c].models
                              = Dropped(Durable[c].models,
                                        FirstNamed(Durable[c].models, name))
                         /\ SettingsOf(Durable'[c]) = SettingsOf(Durable[c])
      ]_vars

\* C38 witness: c1 was linked first to the chatter account a2 and then to the
\* account nicknamed A2, its threshold was set to 3, and /unlink A2, a name
\* both models go by, has removed the first of them: the model nicknamed A2
\* is left, with the chat type and the threshold as they were
C38_Witness ==
    /\ op = "unlink"
    /\ reply = "removed"
    /\ "c1" \in DOMAIN Durable
    /\ Len(Durable["c1"].models) = 1
    /\ Durable["c1"].models[1].nickname = "A2"
    /\ Durable["c1"].chat_type = "chatter"
    /\ Durable["c1"].whale_alert_threshold = 3

=============================================================================
